---- MODULE Spec2Model ----
(***************************************************************************)
(* Arete interview client: the local fallback interviewer                  *)
(* (DemoModeAvatar), the transport wrapper (LiveKitRoomWrapperInner) and   *)
(* the interview page (InterviewPage), as state machines over the          *)
(* browser's event loop.  Every action is one handler run to completion    *)
(* (or to its next await); network answers, recognizer events, timers and  *)
(* user gestures are the environment.                                      *)
(***************************************************************************)
EXTENDS Naturals, Sequences, FiniteSets, TLC

\* ------------------------------------------------------------- bounds
MaxSpeaks  == 3   \* calls of the exposed speak function
MaxResults == 1   \* recognition results taken into the buffer
MaxRetry   == 2   \* consecutive service-not-allowed errors
MaxHeard   == 2   \* recognition results taken in the listening scenario
MaxShort   == 1   \* recognition results below the minimum length
MaxCamToggles == 3 \* clicks on the camera button of the fallback interviewer

\* ------------------------------------------------------------- state
VARIABLES
  \* DemoModeAvatar (src/frontend/test-ui.mjs 573-1295)
  isSpeaking, isMutedRef, isListening, hasUserInteractedRef, showStartPrompt,
  ttsError, speechError, audioQueueRef, isPlayingRef, rec, cooldown,
  pendingTranscriptRef, transcriptTimeoutRef, restartScheduledRef,
  restartTimeoutRef, serviceNotAllowedRetryCount, ttsJustEndedRef,
  hasGreetedRef, speechSynthesisInWindow,
  turns, kickTimers, ttsClearTimers, initialTimer, chats,
  nSpeak, nResult,
  \* whether the component is mounted
  mounted,
  \* DemoModeAvatar's camera preview (src/frontend/test-ui.mjs 584-596,
  \* 910-1065, 1297-1302): the state, the ref, and the getUserMedia requests
  \* made so far with the streams they gave
  isCameraOff, cameraError, cameraStreamReady, mediaStreamRef, gumReqs,
  nCamToggle,
  \* InterviewPage transcript (src/frontend/app/interview/[id]/page.tsx 57)
  messages,
  \* history: the texts handed to onMessage, in call order, and the transcript
  \* length when the utterance now (or last) in the buffer began
  delivered, utteranceStartedAt,
  \* history: the final results below the minimum length handed to onresult,
  \* the error the recognizer raised in the session now winding down, and
  \* whether fewer than 3000 ms have passed since the last chat answer
  nShort, recError, respondedRecently,
  \* history: the service-not-allowed errors since recognition last started
  rejections,
  \* history, in ticks of 500 ms and up to the length of the silence window:
  \* the time since onresult was last called, and since the silence timer
  \* was last set
  sinceResult, sinceArmed,
  \* InterviewPage (src/frontend/app/interview/[id]/page.tsx 54-260)
  timer, isSubmitting, showSetup, candidateName, isStarting, sessionId,
  isConnected, isLoading, hintsUsed, currentCode, wsRef,
  \* the page's surroundings: start-session requests, WebSockets, the
  \* submit and run requests, alerts shown, the route, the redirect timer
  startReqs, sockets, submitReq, runReq, alerts, route, redirectTimer,
  \* CodeEditor (src/frontend/components/interview/CodeEditor.tsx 37-74)
  code, isRunning, error,
  \* what went out: code snapshots on the WebSocket, submit requests
  sentSnapshots, submitLog, quietElapsed,
  nStart, nEdit, nSubmit, nRun, nWsMsg, nBlankStart,
  \* LiveKitRoomWrapperInner (src/frontend/test-ui.mjs 74-174 and
  \* src/frontend/components/interview/LiveKitRoom.tsx 42-163): which of the
  \* two sources is running, whether NEXT_PUBLIC_LIVEKIT_URL is set, the
  \* component's state, the token request and the LiveKit room's state
  variant, livekitUrl, token, wrapperError, wrapperIsLoading, tokenFetch,
  connectionState, everConnected,
  \* InterviewRoomContent (LiveKitRoom.tsx 178-265): the mute and camera
  \* flags, the local tracks, the toggles awaiting the track
  lkIsMuted, lkIsCameraOff, micTrackEnabled, camTrackEnabled, micOps, camOps,
  \* the room's data channel: the code snapshots published on it, and the
  \* calls of the exposed sendCodeSnapshot
  published, nSnap,
  \* history: whether toggleMic / toggleCamera has been called an odd number
  \* of times since the room content was mounted
  micOddToggles, camOddToggles,
  \* history: the payloads received on the data channel, in order
  dataLog

demoVars == <<isSpeaking, isMutedRef, isListening, hasUserInteractedRef,
              showStartPrompt, ttsError, speechError, audioQueueRef,
              isPlayingRef, rec, cooldown, pendingTranscriptRef,
              transcriptTimeoutRef, restartScheduledRef, restartTimeoutRef,
              serviceNotAllowedRetryCount, ttsJustEndedRef, hasGreetedRef,
              speechSynthesisInWindow, turns, kickTimers, ttsClearTimers,
              initialTimer, chats, nSpeak, nResult, mounted>>

transcriptVars == <<messages, delivered>>

clockVars == <<sinceResult, sinceArmed>>

ghostVars == <<utteranceStartedAt, nShort, recError, respondedRecently,
               rejections, clockVars>>

pageVars == <<timer, isSubmitting, showSetup, candidateName, isStarting,
              sessionId, isConnected, isLoading, hintsUsed, currentCode,
              wsRef, startReqs, sockets, submitReq, runReq, alerts, route,
              redirectTimer, code, isRunning, error, sentSnapshots,
              submitLog, quietElapsed, nStart, nEdit, nSubmit, nRun, nWsMsg,
              nBlankStart>>

roomVars == <<variant, livekitUrl, token, wrapperError, wrapperIsLoading,
              tokenFetch, connectionState, everConnected, lkIsMuted,
              lkIsCameraOff, micTrackEnabled, camTrackEnabled, micOps, camOps,
              published, nSnap, micOddToggles, camOddToggles,
              dataLog>>

camVars == <<isCameraOff, cameraError, cameraStreamReady, mediaStreamRef,
             gumReqs, nCamToggle>>

\* what the speech and recognition handlers leave alone
nonDemoVars == <<pageVars, roomVars, camVars>>


vars == <<demoVars, transcriptVars, ghostVars, nonDemoVars>>

\* ------------------------------------------------------------- texts
\* A text is a sequence of words.  The candidate prefix is the word "You:".
NoError == "none"
NoTimer == [pending |-> FALSE, delay |-> 0]

Min(a, b) == IF a < b THEN a ELSE b

Greeting == <<"Hi!">>
Apology  == <<"trouble">>
AIResponses == {<<"reply">>}
SpeakArg(i) == <<"s" \o ToString(i)>>
\* what the recognizer may hand over as a final transcript: white space, a
\* two-character fragment with and without white space around it, a real
\* utterance with and without a leading blank
ResultTexts == {"  ", "ok", " ok ", "hash", " hash"}
\* String.prototype.trim on the results above
TrimResult(t) ==
  CASE t = "  " -> ""
    [] t = " ok " -> "ok"
    [] t = " hash" -> "hash"
    [] OTHER -> t
\* the results that pass the length test of onresult
FullResults == {t \in ResultTexts : Len(TrimResult(t)) >= 3}

ToLowerCase(w) ==
  CASE w = "You:" -> "you:"
    [] w = "YOU:" -> "you:"
    [] OTHER -> w

\* handleLiveKitMessage: 'You:' prefix (any case) -> candidate, prefix cut
MessageEntry(text) ==
  IF Len(text) > 0 /\ ToLowerCase(text[1]) = "you:"
  THEN [role |-> "candidate", text |-> Tail(text)]
  ELSE [role |-> "ai", text |-> text]

\* a transcript that puts the newest entry first
HandleLiveKitMessage_Prepend(text) ==
  messages' = <<MessageEntry(text)>> \o messages

HandleLiveKitMessage(text) ==
  messages' = Append(messages, MessageEntry(text))

\* the onMessage prop of the room component, bound to handleLiveKitMessage
OnMessage(text) ==
  /\ HandleLiveKitMessage(text)
  /\ delivered' = Append(delivered, text)

\* ------------------------------------------------------------- recognizer
\* The browser's SpeechRecognition object: idle, starting (start() called,
\* start event not yet delivered), running, stopping (stop() called or an
\* error raised, end event not yet delivered).
RecErrors == {"not-allowed", "service-not-allowed", "no-speech",
              "audio-capture", "network", "aborted", "bad-grammar"}

\* recognition.start(): InvalidStateError unless idle
StartThrows(r) == r # "idle"
RecStart(r) == IF r = "idle" THEN "starting" ELSE r
\* recognition.stop(): no effect unless started
RecStop(r) == IF r \in {"starting", "running"} THEN "stopping" ELSE r

\* ------------------------------------------------------------- restart timer
ScheduleSpeechRecognitionRestart(delayMs) ==
  IF restartScheduledRef \/ isMutedRef
  THEN UNCHANGED <<restartScheduledRef, restartTimeoutRef>>
  ELSE /\ restartScheduledRef' = TRUE
       /\ restartTimeoutRef' = [pending |-> TRUE, delay |-> delayMs]

\* the callback of the restart timer
RestartTimerFire ==
  /\ restartTimeoutRef.pending
  /\ restartTimeoutRef' = NoTimer
  /\ restartScheduledRef' = FALSE
  /\ IF isMutedRef \/ isPlayingRef \/ StartThrows(rec)
     THEN UNCHANGED <<rec, serviceNotAllowedRetryCount, speechError>>
     ELSE /\ rec' = RecStart(rec)
          /\ serviceNotAllowedRetryCount' = 0
          /\ speechError' = NoError
  /\ UNCHANGED <<isSpeaking, isMutedRef, isListening, hasUserInteractedRef,
                 showStartPrompt, ttsError, audioQueueRef, isPlayingRef,
                 cooldown, pendingTranscriptRef, transcriptTimeoutRef,
                 ttsJustEndedRef, hasGreetedRef, speechSynthesisInWindow,
                 turns, kickTimers, ttsClearTimers, initialTimer, chats,
                 nSpeak, nResult>>
  /\ UNCHANGED <<transcriptVars, ghostVars, nonDemoVars, mounted>>

\* ------------------------------------------------------------- synthesis
\* turns holds the speakText invocations that have not yet reached
\* handleTTSComplete, oldest first
SetPhase(i, p) == [turns EXCEPT ![i].phase = p]

\* what /api/tts answered to a turn's fetch, for as long as the turn acts on
\* it: the HTTP status and the size of the audio blob; NoAnswer while the
\* fetch is pending, when it threw, and once the audio element has failed
NoAnswer == [status |-> 0, size |-> 0]
TTSAnswers == {[status |-> 500, size |-> 100],
               [status |-> 200, size |-> 99],
               [status |-> 200, size |-> 100]}
\* the endpoint serves a full payload, or the fetch throws
ServedOrThrew == {[status |-> 200, size |-> 100], NoAnswer}
\* response.ok
ResponseOk(r) == r.status \in 200..299
\* the smallest blob speakText plays
MinAudioBytes == 100
Remove(i) == SubSeq(turns, 1, i - 1) \o SubSeq(turns, i + 1, Len(turns))

\* handleTTSComplete: clear the flag, then the next queued text (through the
\* 100 ms timer) or the end-of-speech bookkeeping
HandleTTSComplete ==
  /\ isSpeaking' = FALSE
  /\ isPlayingRef' = FALSE
  /\ IF Len(audioQueueRef) > 0
     THEN /\ audioQueueRef' = Tail(audioQueueRef)
          /\ kickTimers' = Append(kickTimers, Head(audioQueueRef))
          /\ UNCHANGED <<ttsJustEndedRef, ttsClearTimers, restartScheduledRef,
                         restartTimeoutRef>>
     ELSE /\ UNCHANGED <<audioQueueRef, kickTimers>>
          /\ ttsJustEndedRef' = TRUE
          /\ ttsClearTimers' = ttsClearTimers + 1
          /\ IF ~isMutedRef
             THEN ScheduleSpeechRecognitionRestart(2500)
             ELSE UNCHANGED <<restartScheduledRef, restartTimeoutRef>>

\* speakText up to its first await (the TTS fetch)
SpeakText(text) ==
  /\ ttsError' = NoError
  /\ isPlayingRef' = TRUE
  /\ ttsJustEndedRef' = FALSE
  /\ restartTimeoutRef' = NoTimer
  /\ restartScheduledRef' = FALSE
  /\ rec' = RecStop(rec)
  /\ isSpeaking' = TRUE
  /\ turns' = Append(turns, [text |-> text, phase |-> "fetch",
                             answer |-> NoAnswer])

\* window.__areteSpeakAI(text)
AreteSpeakAI(text) ==
  IF isPlayingRef
  THEN /\ audioQueueRef' = Append(audioQueueRef, text)
       /\ UNCHANGED <<ttsError, isPlayingRef, ttsJustEndedRef,
                      restartTimeoutRef, restartScheduledRef, rec,
                      isSpeaking, turns>>
  ELSE /\ SpeakText(text)
       /\ UNCHANGED audioQueueRef

\* some caller outside the component uses the exposed speak function
CallSpeakAI ==
  /\ mounted
  /\ nSpeak < MaxSpeaks
  /\ nSpeak' = nSpeak + 1
  /\ AreteSpeakAI(SpeakArg(nSpeak + 1))
  /\ UNCHANGED <<isMutedRef, isListening, hasUserInteractedRef,
                 showStartPrompt, speechError, cooldown,
                 pendingTranscriptRef, transcriptTimeoutRef,
                 serviceNotAllowedRetryCount, hasGreetedRef,
                 speechSynthesisInWindow, kickTimers, ttsClearTimers,
                 initialTimer, chats, nResult>>
  /\ UNCHANGED <<transcriptVars, ghostVars, nonDemoVars, mounted>>

\* the 100 ms timer of handleTTSComplete hands the next queued text back to
\* __areteSpeakAI
KickTimerFire ==
  /\ Len(kickTimers) > 0
  /\ kickTimers' = Tail(kickTimers)
  /\ IF mounted
     THEN AreteSpeakAI(Head(kickTimers))
     ELSE UNCHANGED <<audioQueueRef, ttsError, isPlayingRef, ttsJustEndedRef,
                      restartTimeoutRef, restartScheduledRef, rec,
                      isSpeaking, turns>>
  /\ UNCHANGED <<isMutedRef, isListening, hasUserInteractedRef,
                 showStartPrompt, speechError, cooldown,
                 pendingTranscriptRef, transcriptTimeoutRef,
                 serviceNotAllowedRetryCount, hasGreetedRef,
                 speechSynthesisInWindow, ttsClearTimers,
                 initialTimer, chats, nSpeak, nResult>>
  /\ UNCHANGED <<transcriptVars, ghostVars, nonDemoVars, mounted>>

\* the 3 s timer of handleTTSComplete clears ttsJustEndedRef
TtsJustEndedTimerFire ==
  /\ ttsClearTimers > 0
  /\ ttsClearTimers' = ttsClearTimers - 1
  /\ ttsJustEndedRef' = FALSE
  /\ UNCHANGED <<isSpeaking, isMutedRef, isListening, hasUserInteractedRef,
                 showStartPrompt, ttsError, speechError, audioQueueRef,
                 isPlayingRef, rec, cooldown, pendingTranscriptRef,
                 transcriptTimeoutRef, restartScheduledRef, restartTimeoutRef,
                 serviceNotAllowedRetryCount, hasGreetedRef,
                 speechSynthesisInWindow, turns, kickTimers, initialTimer,
                 chats, nSpeak, nResult>>
  /\ UNCHANGED <<transcriptVars, ghostVars, nonDemoVars, mounted>>

\* what the speech turn handlers below leave alone
TurnFrame == UNCHANGED <<isMutedRef, isListening, hasUserInteractedRef,
                         showStartPrompt, speechError, rec, cooldown,
                         pendingTranscriptRef, transcriptTimeoutRef,
                         serviceNotAllowedRetryCount, hasGreetedRef,
                         speechSynthesisInWindow, initialTimer, chats,
                         nSpeak, nResult>>

CompleteFrame == UNCHANGED <<isSpeaking, isPlayingRef, audioQueueRef,
                             kickTimers, ttsJustEndedRef, ttsClearTimers,
                             restartScheduledRef, restartTimeoutRef>>

\* speakWithBrowserTTS for turn i, sent there by the answer a
SpeakWithBrowserTTS(i, a) ==
  IF ~speechSynthesisInWindow
  THEN /\ ttsError' = "unsupported"
       /\ turns' = Remove(i)
       /\ HandleTTSComplete
  ELSE /\ isSpeaking' = TRUE
       /\ turns' = [turns EXCEPT ![i].phase = "browser", ![i].answer = a]
       /\ UNCHANGED <<ttsError, isPlayingRef, audioQueueRef, kickTimers,
                      ttsJustEndedRef, ttsClearTimers, restartScheduledRef,
                      restartTimeoutRef>>

\* speakText without the blob-size test of line 786
TTSFetchOk_AnySize(i, r) ==
  /\ ResponseOk(r)
  /\ i \in 1..Len(turns) /\ turns[i].phase = "fetch"
  /\ turns' = [j \in 1..Len(turns) |->
                 IF j = i THEN [turns[j] EXCEPT !.phase = "starting",
                                                 !.answer = r]
                 ELSE IF turns[j].phase = "playing"
                      THEN [turns[j] EXCEPT !.phase = "paused"]
                      ELSE IF turns[j].phase = "starting"
                           THEN [turns[j] EXCEPT !.phase = "aborted"]
                           ELSE turns[j]]
  /\ UNCHANGED ttsError
  /\ CompleteFrame /\ TurnFrame /\ UNCHANGED <<transcriptVars, ghostVars, nonDemoVars, mounted>>

\* the TTS fetch answers 2xx with a plausible payload: the previous audio
\* element is paused (a playing one stays silent for good, one whose play()
\* is still pending has the promise rejected), a new one is created and
\* play() is called
TTSFetchOk(i, r) ==
  /\ ResponseOk(r) /\ r.size >= MinAudioBytes
  /\ i \in 1..Len(turns) /\ turns[i].phase = "fetch"
  /\ turns' = [j \in 1..Len(turns) |->
                 IF j = i THEN [turns[j] EXCEPT !.phase = "starting",
                                                 !.answer = r]
                 ELSE IF turns[j].phase = "playing"
                      THEN [turns[j] EXCEPT !.phase = "paused"]
                      ELSE IF turns[j].phase = "starting"
                           THEN [turns[j] EXCEPT !.phase = "aborted"]
                           ELSE turns[j]]
  /\ UNCHANGED ttsError
  /\ CompleteFrame /\ TurnFrame /\ UNCHANGED <<transcriptVars, ghostVars, nonDemoVars, mounted>>

\* the TTS fetch answers non-2xx, or with fewer than 100 bytes, or throws
TTSFetchBad(i, r) ==
  /\ i \in 1..Len(turns) /\ turns[i].phase = "fetch"
  /\ ~ResponseOk(r) \/ r.size < MinAudioBytes
  /\ SpeakWithBrowserTTS(i, r)
  /\ TurnFrame /\ UNCHANGED <<transcriptVars, ghostVars, nonDemoVars, mounted>>

\* audio.play() resolves
AudioPlayResolved(i) ==
  /\ i \in 1..Len(turns) /\ turns[i].phase = "starting"
  /\ turns' = SetPhase(i, "playing")
  /\ ttsError' = NoError
  /\ CompleteFrame /\ TurnFrame /\ UNCHANGED <<transcriptVars, ghostVars, nonDemoVars, mounted>>

\* audio.play() rejects (autoplay blocked, or interrupted by pause()), or
\* audio.onerror while playing
AudioFailed(i) ==
  /\ i \in 1..Len(turns)
  /\ turns[i].phase \in {"starting", "playing", "aborted"}
  /\ SpeakWithBrowserTTS(i, NoAnswer)
  /\ TurnFrame /\ UNCHANGED <<transcriptVars, ghostVars, nonDemoVars, mounted>>

\* audio.onended
AudioEnded(i) ==
  /\ i \in 1..Len(turns) /\ turns[i].phase = "playing"
  /\ turns' = Remove(i)
  /\ HandleTTSComplete
  /\ UNCHANGED ttsError
  /\ TurnFrame /\ UNCHANGED <<transcriptVars, ghostVars, nonDemoVars, mounted>>

\* utterance.onstart
UtteranceStart(i) ==
  /\ i \in 1..Len(turns) /\ turns[i].phase = "browser"
  /\ turns' = SetPhase(i, "speaking")
  /\ isSpeaking' = TRUE
  /\ ttsError' = NoError
  /\ UNCHANGED <<isPlayingRef, audioQueueRef, kickTimers, ttsJustEndedRef,
                 ttsClearTimers, restartScheduledRef, restartTimeoutRef>>
  /\ TurnFrame /\ UNCHANGED <<transcriptVars, ghostVars, nonDemoVars, mounted>>

\* utterance.onend
UtteranceEnd(i) ==
  /\ i \in 1..Len(turns) /\ turns[i].phase = "speaking"
  /\ turns' = Remove(i)
  /\ HandleTTSComplete
  /\ UNCHANGED ttsError
  /\ TurnFrame /\ UNCHANGED <<transcriptVars, ghostVars, nonDemoVars, mounted>>

\* utterance.onerror (blocked, interrupted or cancelled)
UtteranceError(i) ==
  /\ i \in 1..Len(turns) /\ turns[i].phase \in {"browser", "speaking"}
  /\ turns' = Remove(i)
  /\ ttsError' = "blocked"
  /\ HandleTTSComplete
  /\ TurnFrame /\ UNCHANGED <<transcriptVars, ghostVars, nonDemoVars, mounted>>

\* ------------------------------------------------------------- recognition
\* a handleUserSpeech that sends nothing
HandleUserSpeech_Skips(userText) ==
  UNCHANGED chats

\* handleUserSpeech up to its await (the chat request)
HandleUserSpeech(userText) ==
  IF isPlayingRef
  THEN UNCHANGED chats
  ELSE chats' = Append(chats, userText)

\* recognition.onstart
RecOnStart ==
  /\ rec = "starting"
  /\ rec' = "running"
  /\ isListening' = TRUE
  /\ speechError' = NoError
  /\ serviceNotAllowedRetryCount' = 0
  /\ restartScheduledRef' = FALSE
  /\ rejections' = 0
  /\ UNCHANGED <<isSpeaking, isMutedRef, hasUserInteractedRef,
                 showStartPrompt, ttsError, audioQueueRef, isPlayingRef,
                 cooldown, pendingTranscriptRef, transcriptTimeoutRef,
                 restartTimeoutRef, ttsJustEndedRef, hasGreetedRef,
                 speechSynthesisInWindow, turns, kickTimers, ttsClearTimers,
                 initialTimer, chats, nSpeak, nResult>>
  /\ UNCHANGED <<transcriptVars, utteranceStartedAt, clockVars, nShort, recError,
                 respondedRecently, nonDemoVars, mounted>>

\* an onresult that tests the length before trimming
Hear_UntrimmedLength(t, budget) ==
  /\ rec \in {"running", "stopping"}
  /\ sinceResult' = 0
  /\ LET transcript == TrimResult(t) IN
     IF isPlayingRef
     THEN UNCHANGED <<pendingTranscriptRef, transcriptTimeoutRef, nResult,
                      utteranceStartedAt, nShort, sinceArmed>>
     ELSE IF t = "" \/ Len(t) < 3
          THEN /\ nShort < MaxShort
               /\ nShort' = nShort + 1
               /\ UNCHANGED <<pendingTranscriptRef, transcriptTimeoutRef,
                              nResult, utteranceStartedAt, sinceArmed>>
          ELSE /\ nResult < budget
               /\ nResult' = nResult + 1
               /\ pendingTranscriptRef' = Append(pendingTranscriptRef,
                                                 transcript)
               /\ transcriptTimeoutRef' = TRUE
               /\ sinceArmed' = 0
               /\ utteranceStartedAt' = IF pendingTranscriptRef = <<>>
                                        THEN Len(messages)
                                        ELSE utteranceStartedAt
               /\ UNCHANGED nShort
  /\ UNCHANGED <<isSpeaking, isMutedRef, isListening, hasUserInteractedRef,
                 showStartPrompt, ttsError, speechError, audioQueueRef,
                 isPlayingRef, rec, cooldown, restartScheduledRef,
                 restartTimeoutRef, serviceNotAllowedRetryCount,
                 ttsJustEndedRef, hasGreetedRef, speechSynthesisInWindow,
                 turns, kickTimers, ttsClearTimers, initialTimer, chats,
                 nSpeak>>
  /\ UNCHANGED <<transcriptVars, recError, respondedRecently, rejections,
                 nonDemoVars, mounted>>

\* recognition.onresult with a final last result whose transcript is t (an
\* interim last result changes nothing); at most budget results are taken
\* into the buffer
Hear(t, budget) ==
  /\ rec \in {"running", "stopping"}
  /\ sinceResult' = 0
  /\ LET transcript == TrimResult(t) IN
     IF isPlayingRef
     THEN UNCHANGED <<pendingTranscriptRef, transcriptTimeoutRef, nResult,
                      utteranceStartedAt, nShort, sinceArmed>>
     ELSE IF transcript = "" \/ Len(transcript) < 3
          THEN /\ nShort < MaxShort
               /\ nShort' = nShort + 1
               /\ UNCHANGED <<pendingTranscriptRef, transcriptTimeoutRef,
                              nResult, utteranceStartedAt, sinceArmed>>
          ELSE /\ nResult < budget
               /\ nResult' = nResult + 1
               /\ pendingTranscriptRef' = Append(pendingTranscriptRef,
                                                 transcript)
               /\ transcriptTimeoutRef' = TRUE
               /\ sinceArmed' = 0
               /\ utteranceStartedAt' = IF pendingTranscriptRef = <<>>
                                        THEN Len(messages)
                                        ELSE utteranceStartedAt
               /\ UNCHANGED nShort
  /\ UNCHANGED <<isSpeaking, isMutedRef, isListening, hasUserInteractedRef,
                 showStartPrompt, ttsError, speechError, audioQueueRef,
                 isPlayingRef, rec, cooldown, restartScheduledRef,
                 restartTimeoutRef, serviceNotAllowedRetryCount,
                 ttsJustEndedRef, hasGreetedRef, speechSynthesisInWindow,
                 turns, kickTimers, ttsClearTimers, initialTimer, chats,
                 nSpeak>>
  /\ UNCHANGED <<transcriptVars, recError, respondedRecently, rejections,
                 nonDemoVars, mounted>>

RecOnResult(t) == Hear(t, MaxResults)

\* recognition.onresult with an interim last result: the handler returns
\* after its isPlayingRef test or after its isFinal test, having changed
\* nothing
InterimResult ==
  /\ rec \in {"running", "stopping"}
  /\ sinceResult' = 0
  /\ UNCHANGED <<demoVars, transcriptVars, utteranceStartedAt, nShort,
                 recError, respondedRecently, rejections, sinceArmed,
                 nonDemoVars>>

\* the length of the silence window of onresult's setTimeout, 1500 ms
WindowTicks == 3

\* 500 ms pass
Tick ==
  /\ sinceResult < WindowTicks \/ sinceArmed < WindowTicks
  /\ sinceResult' = Min(sinceResult + 1, WindowTicks)
  /\ sinceArmed' = Min(sinceArmed + 1, WindowTicks)
  /\ UNCHANGED <<demoVars, transcriptVars, utteranceStartedAt, nShort,
                 recError, respondedRecently, rejections, nonDemoVars>>

\* the 1.5 s silence timer set by onresult
TranscriptTimeoutFire ==
  /\ transcriptTimeoutRef
  /\ transcriptTimeoutRef' = FALSE
  /\ pendingTranscriptRef' = <<>>
  /\ IF pendingTranscriptRef = <<>>
     THEN UNCHANGED <<cooldown, chats, messages, delivered>>
     ELSE IF cooldown \/ isPlayingRef
          THEN /\ OnMessage(<<"You:">> \o pendingTranscriptRef)
               /\ UNCHANGED <<cooldown, chats>>
          ELSE /\ cooldown' = TRUE
               /\ OnMessage(<<"You:">> \o pendingTranscriptRef)
               /\ HandleUserSpeech(pendingTranscriptRef)
  /\ UNCHANGED <<isSpeaking, isMutedRef, isListening, hasUserInteractedRef,
                 showStartPrompt, ttsError, speechError, audioQueueRef,
                 isPlayingRef, rec, restartScheduledRef, restartTimeoutRef,
                 serviceNotAllowedRetryCount, ttsJustEndedRef, hasGreetedRef,
                 speechSynthesisInWindow, turns, kickTimers, ttsClearTimers,
                 initialTimer, nSpeak, nResult>>
  /\ UNCHANGED <<ghostVars, nonDemoVars, mounted>>

\* 3000 ms have passed since lastResponseTimeRef was set
CooldownElapsed ==
  /\ cooldown
  /\ cooldown' = FALSE
  /\ UNCHANGED <<isSpeaking, isMutedRef, isListening, hasUserInteractedRef,
                 showStartPrompt, ttsError, speechError, audioQueueRef,
                 isPlayingRef, rec, pendingTranscriptRef,
                 transcriptTimeoutRef, restartScheduledRef, restartTimeoutRef,
                 serviceNotAllowedRetryCount, ttsJustEndedRef, hasGreetedRef,
                 speechSynthesisInWindow, turns, kickTimers, ttsClearTimers,
                 initialTimer, chats, nSpeak, nResult>>
  /\ UNCHANGED <<transcriptVars, ghostVars, nonDemoVars, mounted>>

\* 3000 ms have passed since the last chat answer
ResponseWindowElapsed ==
  /\ respondedRecently
  /\ respondedRecently' = FALSE
  /\ UNCHANGED <<demoVars, transcriptVars, utteranceStartedAt, clockVars, nShort,
                 recError, rejections, nonDemoVars>>

BackoffDelay(count) == Min(3000 * 2 ^ (count - 1), 15000)

\* recognition.onerror; the recognizer then winds down to its end event
\* (one error per session)
RecOnError(e) ==
  /\ rec \in {"starting", "running", "stopping"}
  /\ recError = NoError
  /\ rec' = "stopping"
  /\ recError' = e
  /\ rejections' = IF e = "service-not-allowed"
                   THEN rejections + 1 ELSE rejections
  /\ CASE e = "not-allowed" ->
            /\ speechError' = "denied"
            /\ UNCHANGED <<serviceNotAllowedRetryCount, restartScheduledRef,
                           restartTimeoutRef>>
       [] e = "service-not-allowed" ->
            /\ serviceNotAllowedRetryCount < MaxRetry
            /\ rejections < MaxRetry
            /\ serviceNotAllowedRetryCount' = serviceNotAllowedRetryCount + 1
            /\ speechError' = IF serviceNotAllowedRetryCount + 1 >= 3
                              THEN "busy" ELSE speechError
            /\ ScheduleSpeechRecognitionRestart(
                 BackoffDelay(serviceNotAllowedRetryCount + 1))
       [] e = "audio-capture" ->
            /\ speechError' = "no-microphone"
            /\ UNCHANGED <<serviceNotAllowedRetryCount, restartScheduledRef,
                           restartTimeoutRef>>
       [] e = "network" ->
            /\ speechError' = "network"
            /\ UNCHANGED <<serviceNotAllowedRetryCount, restartScheduledRef,
                           restartTimeoutRef>>
       [] e \in {"no-speech", "aborted"} ->
            UNCHANGED <<speechError, serviceNotAllowedRetryCount,
                        restartScheduledRef, restartTimeoutRef>>
       [] OTHER ->
            /\ speechError' = "other"
            /\ UNCHANGED <<serviceNotAllowedRetryCount, restartScheduledRef,
                           restartTimeoutRef>>
  /\ UNCHANGED <<isSpeaking, isMutedRef, isListening, hasUserInteractedRef,
                 showStartPrompt, ttsError, audioQueueRef, isPlayingRef,
                 cooldown, pendingTranscriptRef, transcriptTimeoutRef,
                 ttsJustEndedRef, hasGreetedRef, speechSynthesisInWindow,
                 turns, kickTimers, ttsClearTimers, initialTimer, chats,
                 nSpeak, nResult>>
  /\ UNCHANGED <<transcriptVars, utteranceStartedAt, clockVars, nShort,
                 respondedRecently, nonDemoVars, mounted>>

\* recognition.onend: after stop(), after an error, or when the browser ends
\* the session by itself
RecOnEnd ==
  /\ rec \in {"running", "stopping"}
  /\ rec' = "idle"
  /\ recError' = NoError
  /\ isListening' = FALSE
  /\ IF ttsJustEndedRef
     THEN UNCHANGED <<restartScheduledRef, restartTimeoutRef>>
     ELSE IF ~isMutedRef /\ ~isPlayingRef
          THEN ScheduleSpeechRecognitionRestart(500)
          ELSE UNCHANGED <<restartScheduledRef, restartTimeoutRef>>
  /\ UNCHANGED <<isSpeaking, isMutedRef, hasUserInteractedRef,
                 showStartPrompt, ttsError, speechError, audioQueueRef,
                 isPlayingRef, cooldown, pendingTranscriptRef,
                 transcriptTimeoutRef, serviceNotAllowedRetryCount,
                 ttsJustEndedRef, hasGreetedRef, speechSynthesisInWindow,
                 turns, kickTimers, ttsClearTimers, initialTimer, chats,
                 nSpeak, nResult>>
  /\ UNCHANGED <<transcriptVars, utteranceStartedAt, clockVars, nShort,
                 respondedRecently, rejections, nonDemoVars, mounted>>

\* the chat request for chats[1] answers; requests answer in the order sent
ChatFrame == UNCHANGED <<isMutedRef, isListening, hasUserInteractedRef,
                         showStartPrompt, speechError, audioQueueRef,
                         cooldown, pendingTranscriptRef,
                         transcriptTimeoutRef, serviceNotAllowedRetryCount,
                         hasGreetedRef, speechSynthesisInWindow, kickTimers,
                         ttsClearTimers, initialTimer, nSpeak, nResult,
                         utteranceStartedAt, clockVars, nShort, recError, rejections,
                         nonDemoVars, mounted>>

\* 2xx: the reply is appended to the transcript and spoken
ChatReplyOk(aiResponse) ==
  /\ Len(chats) > 0
  /\ chats' = Tail(chats)
  /\ OnMessage(aiResponse)
  /\ SpeakText(aiResponse)
  /\ respondedRecently' = TRUE
  /\ ChatFrame

\* a failure that is only logged
ChatReplyFailed_Silent ==
  /\ Len(chats) > 0
  /\ chats' = Tail(chats)
  /\ UNCHANGED <<isSpeaking, ttsError, isPlayingRef, rec, restartScheduledRef,
                 restartTimeoutRef, ttsJustEndedRef, turns, transcriptVars,
                 respondedRecently>>
  /\ ChatFrame

\* network error or non-2xx: the fixed apology instead
ChatReplyFailed ==
  /\ Len(chats) > 0
  /\ chats' = Tail(chats)
  /\ OnMessage(Apology)
  /\ SpeakText(Apology)
  /\ respondedRecently' = TRUE
  /\ ChatFrame

\* ------------------------------------------------------------- user
\* toggleMic
ToggleMic ==
  /\ mounted
  /\ isMutedRef' = ~isMutedRef
  /\ rec' = IF ~isMutedRef THEN RecStop(rec) ELSE RecStart(rec)
  /\ UNCHANGED <<isSpeaking, isListening, hasUserInteractedRef,
                 showStartPrompt, ttsError, speechError, audioQueueRef,
                 isPlayingRef, cooldown, pendingTranscriptRef,
                 transcriptTimeoutRef, restartScheduledRef, restartTimeoutRef,
                 serviceNotAllowedRetryCount, ttsJustEndedRef, hasGreetedRef,
                 speechSynthesisInWindow, turns, kickTimers, ttsClearTimers,
                 initialTimer, chats, nSpeak, nResult>>
  /\ UNCHANGED <<transcriptVars, ghostVars, nonDemoVars, mounted>>

GreetFrame == UNCHANGED <<isMutedRef, isListening, speechError,
                          audioQueueRef, cooldown, pendingTranscriptRef,
                          transcriptTimeoutRef, serviceNotAllowedRetryCount,
                          speechSynthesisInWindow, kickTimers,
                          ttsClearTimers, chats, nSpeak, nResult,
                          utteranceStartedAt, clockVars, nShort, recError, rejections,
                          respondedRecently, nonDemoVars, mounted>>

\* handleStartInterview: the click on the start overlay
HandleStartInterview ==
  /\ mounted
  /\ showStartPrompt /\ ~hasUserInteractedRef
  /\ hasUserInteractedRef' = TRUE
  /\ showStartPrompt' = FALSE
  /\ OnMessage(Greeting)
  /\ SpeakText(Greeting)
  /\ UNCHANGED <<hasGreetedRef, initialTimer>>
  /\ GreetFrame

\* the 1.5 s timer of the greeting effect
InitialTimerFire ==
  /\ initialTimer
  /\ initialTimer' = FALSE
  /\ OnMessage(Greeting)
  /\ IF hasUserInteractedRef
     THEN /\ hasGreetedRef' = TRUE
          /\ SpeakText(Greeting)
     ELSE UNCHANGED <<hasGreetedRef, ttsError, isPlayingRef, ttsJustEndedRef,
                      restartTimeoutRef, restartScheduledRef, rec,
                      isSpeaking, turns>>
  /\ UNCHANGED <<hasUserInteractedRef, showStartPrompt>>
  /\ GreetFrame

\* handleInteraction: a click, key or touch anywhere else in the window
HandleInteraction ==
  /\ mounted
  /\ ~hasUserInteractedRef
  /\ hasUserInteractedRef' = TRUE
  /\ UNCHANGED <<isSpeaking, isMutedRef, isListening, showStartPrompt,
                 ttsError, speechError, audioQueueRef, isPlayingRef, rec,
                 cooldown, pendingTranscriptRef, transcriptTimeoutRef,
                 restartScheduledRef, restartTimeoutRef,
                 serviceNotAllowedRetryCount, ttsJustEndedRef, hasGreetedRef,
                 speechSynthesisInWindow, turns, kickTimers, ttsClearTimers,
                 initialTimer, chats, nSpeak, nResult>>
  /\ UNCHANGED <<transcriptVars, ghostVars, nonDemoVars, mounted>>

\* ------------------------------------------------------------- camera
NoStream == 0

\* getTracks().forEach(track => track.stop()) on the stream of request i
StopTracks(reqs, i) ==
  IF i = NoStream THEN reqs ELSE [reqs EXCEPT ![i].st = "stopped"]

\* the cleanup of the camera effect: the closure's mounted flag of every
\* earlier run is down
EffectCleanup(reqs) ==
  [i \in DOMAIN reqs |-> [reqs[i] EXCEPT !.mounted = FALSE]]

\* toggleCamera, and the camera effect that the change of isCameraOff
\* re-runs: its cleanup, then a new getUserMedia request (camera on) or the
\* release of the stream held (camera off)
ToggleCamera ==
  /\ mounted
  /\ nCamToggle < MaxCamToggles
  /\ nCamToggle' = nCamToggle + 1
  /\ isCameraOff' = ~isCameraOff
  /\ cameraStreamReady' = FALSE
  /\ cameraError' = NoError
  /\ LET stopped == IF ~isCameraOff THEN StopTracks(gumReqs, mediaStreamRef)
                    ELSE gumReqs
         cleaned == EffectCleanup(stopped)
     IN  IF isCameraOff
         THEN /\ gumReqs' = Append(cleaned, [st |-> "pending",
                                             mounted |-> TRUE,
                                             late |-> FALSE])
              /\ UNCHANGED mediaStreamRef
         ELSE /\ gumReqs' = StopTracks(cleaned, mediaStreamRef)
              /\ mediaStreamRef' = NoStream
  /\ UNCHANGED <<demoVars, transcriptVars, ghostVars, pageVars, roomVars>>

\* a setupCamera that keeps the stream whatever its effect's mounted flag
GetUserMediaResolved_KeepsLate(i, videoOk) ==
  /\ i \in DOMAIN gumReqs /\ gumReqs[i].st = "pending"
  /\ gumReqs' = [gumReqs EXCEPT ![i].st = "live",
                                ![i].late = ~gumReqs[i].mounted]
  /\ mediaStreamRef' = i
  /\ IF videoOk
     THEN cameraStreamReady' = TRUE /\ cameraError' = NoError
     ELSE cameraError' = "no-track" /\ UNCHANGED cameraStreamReady
  /\ UNCHANGED <<isCameraOff, nCamToggle>>
  /\ UNCHANGED <<demoVars, transcriptVars, ghostVars, pageVars, roomVars>>

\* getUserMedia of request i resolves with a stream, whose video track is
\* usable or not: setupCamera after its await
GetUserMediaResolved(i, videoOk) ==
  /\ i \in DOMAIN gumReqs /\ gumReqs[i].st = "pending"
  /\ IF ~gumReqs[i].mounted
     THEN /\ gumReqs' = [gumReqs EXCEPT ![i].st = "stopped", ![i].late = TRUE]
          /\ UNCHANGED <<mediaStreamRef, cameraStreamReady, cameraError>>
     ELSE /\ gumReqs' = [gumReqs EXCEPT ![i].st = "live"]
          /\ mediaStreamRef' = i
          /\ IF videoOk
             THEN cameraStreamReady' = TRUE /\ cameraError' = NoError
             ELSE cameraError' = "no-track" /\ UNCHANGED cameraStreamReady
  /\ UNCHANGED <<isCameraOff, nCamToggle>>
  /\ UNCHANGED <<demoVars, transcriptVars, ghostVars, pageVars, roomVars>>

\* the DOMException names getUserMedia rejects with
MediaErrors == {"NotAllowedError", "NotFoundError", "NotReadableError",
                "AbortError"}

\* getUserMedia of request i rejects: the catch of setupCamera
GetUserMediaRejected(i, name) ==
  /\ i \in DOMAIN gumReqs /\ gumReqs[i].st = "pending"
  /\ gumReqs' = [gumReqs EXCEPT ![i].st = "failed"]
  /\ cameraError' = CASE name = "NotAllowedError" -> "denied"
                      [] name = "NotFoundError" -> "not-found"
                      [] name = "NotReadableError" -> "in-use"
                      [] OTHER -> "unknown"
  /\ UNCHANGED <<isCameraOff, cameraStreamReady, mediaStreamRef, nCamToggle>>
  /\ UNCHANGED <<demoVars, transcriptVars, ghostVars, pageVars, roomVars>>

\* the component is unmounted: the effects' cleanups run (the exposed speak
\* function is deleted, the greeting timer cleared, the interaction
\* listeners removed, the camera effect's mounted flag lowered and the
\* stream held released, the recognizer stopped and its two timers cleared)
Unmount ==
  /\ mounted
  /\ mounted' = FALSE
  /\ initialTimer' = FALSE
  /\ rec' = RecStop(rec)
  /\ transcriptTimeoutRef' = FALSE
  /\ restartTimeoutRef' = NoTimer
  /\ restartScheduledRef' = FALSE
  /\ UNCHANGED <<isSpeaking, isMutedRef, isListening, hasUserInteractedRef,
                 showStartPrompt, ttsError, speechError, audioQueueRef,
                 isPlayingRef, cooldown, pendingTranscriptRef,
                 serviceNotAllowedRetryCount, ttsJustEndedRef, hasGreetedRef,
                 speechSynthesisInWindow, turns, kickTimers, ttsClearTimers,
                 chats, nSpeak, nResult>>
  /\ gumReqs' = StopTracks(EffectCleanup(gumReqs), mediaStreamRef)
  /\ UNCHANGED <<isCameraOff, cameraError, cameraStreamReady, mediaStreamRef,
                 nCamToggle>>
  /\ UNCHANGED <<transcriptVars, ghostVars, pageVars, roomVars>>

\* ------------------------------------------------------------- InterviewPage
MaxStarts  == 2   \* start-session requests
MaxEdits   == 2   \* editor changes
MaxSubmits == 2   \* clicks on Submit Solution
MaxRuns    == 2   \* clicks on Run Code
MaxTimer   == 2   \* ticks of the elapsed-time interval
MaxWsMsgs  == 2   \* messages arriving on a WebSocket
MaxBlankStarts == 1   \* calls of startInterview without a name

NoSession == 0
NoSocket  == 0
NoRoute   == [page |-> "interview", id |-> 0]
StarterCode == "starter"
Names == {"", " ", "Ann"}
Codes == {"a", "b"}
WSMessages == {[type |-> "ai_message", status |-> ""],
               [type |-> "hint", status |-> ""],
               [type |-> "code_feedback", status |-> ""],
               [type |-> "interview_status", status |-> "completed"],
               [type |-> "interview_status", status |-> "active"],
               [type |-> "error", status |-> ""]}

\* String.prototype.trim on the names above
Trim(n) == IF n = " " THEN "" ELSE n

Dashboard(sid) == [page |-> "dashboard", id |-> sid]

InitPageVars ==
  /\ timer = 0 /\ isSubmitting = FALSE /\ showSetup = TRUE
  /\ candidateName = "" /\ isStarting = FALSE /\ sessionId = NoSession
  /\ isConnected = FALSE /\ isLoading = FALSE /\ hintsUsed = 0
  /\ currentCode = StarterCode /\ wsRef = NoSocket
  /\ startReqs = <<>> /\ sockets = <<>>
  /\ submitReq = "none" /\ runReq = "none" /\ alerts = <<>>
  /\ route = NoRoute /\ redirectTimer = FALSE
  /\ code = StarterCode /\ isRunning = FALSE /\ error = NoError
  /\ sentSnapshots = <<>> /\ submitLog = <<>> /\ quietElapsed = TRUE
  /\ nStart = 0 /\ nEdit = 0 /\ nSubmit = 0 /\ nRun = 0 /\ nWsMsg = 0
  /\ nBlankStart = 0

OnPage == route = NoRoute

\* the name field's onChange
SetCandidateName(n) ==
  /\ OnPage /\ showSetup
  /\ n # candidateName
  /\ candidateName' = n
  /\ UNCHANGED <<timer, isSubmitting, showSetup, isStarting, sessionId,
                 isConnected, isLoading, hintsUsed, currentCode, wsRef,
                 startReqs, sockets, submitReq, runReq, alerts, route,
                 redirectTimer, code, isRunning, error, sentSnapshots,
                 submitLog, quietElapsed, nStart, nEdit, nSubmit, nRun,
                 nWsMsg, nBlankStart,
                 messages>>

\* a startInterview without its name guard
StartInterview_NoGuard ==
  /\ nStart < MaxStarts
  /\ nStart' = nStart + 1
  /\ isStarting' = TRUE
  /\ isLoading' = TRUE
  /\ startReqs' = Append(startReqs, [st |-> "inflight",
                                     name |-> Trim(candidateName),
                                     closureSessionId |-> sessionId])
  /\ sockets' = Append(sockets, "none")
  /\ UNCHANGED nBlankStart

\* startInterview up to its await: the i-th request goes out; the
\* handleWSMessage it will hand to the socket is the one of this render, with
\* this render's sessionId.  Calls that return at the name guard are counted.
StartInterview ==
  IF Trim(candidateName) = ""
  THEN /\ nBlankStart < MaxBlankStarts
       /\ nBlankStart' = nBlankStart + 1
       /\ UNCHANGED <<isStarting, isLoading, startReqs, sockets, nStart>>
  ELSE /\ nStart < MaxStarts
       /\ nStart' = nStart + 1
       /\ isStarting' = TRUE
       /\ isLoading' = TRUE
       /\ startReqs' = Append(startReqs, [st |-> "inflight",
                                          name |-> Trim(candidateName),
                                          closureSessionId |-> sessionId])
       /\ sockets' = Append(sockets, "none")
       /\ UNCHANGED nBlankStart

StartFrame == UNCHANGED <<timer, isSubmitting, showSetup, candidateName,
                          sessionId, isConnected, hintsUsed, currentCode,
                          wsRef, submitReq, runReq, alerts, route,
                          redirectTimer, code, isRunning, error,
                          sentSnapshots, submitLog, quietElapsed, nEdit,
                          nSubmit, nRun, nWsMsg,
                 messages>>

\* the Start Interview button (disabled without a name or while starting)
StartClick ==
  /\ OnPage /\ showSetup
  /\ Trim(candidateName) # "" /\ ~isStarting
  /\ StartInterview
  /\ StartFrame

\* Enter in the name field
StartEnter ==
  /\ OnPage /\ showSetup
  /\ StartInterview
  /\ StartFrame

\* the start-session request i answers 2xx
StartOk(i) ==
  /\ OnPage
  /\ i \in DOMAIN startReqs /\ startReqs[i].st = "inflight"
  /\ startReqs' = [startReqs EXCEPT ![i].st = "ok"]
  /\ sessionId' = i
  /\ currentCode' = StarterCode
  /\ isConnected' = TRUE
  /\ showSetup' = FALSE
  /\ isLoading' = FALSE
  /\ sockets' = [sockets EXCEPT ![i] = "CONNECTING"]
  /\ wsRef' = i
  /\ UNCHANGED <<timer, isSubmitting, candidateName, isStarting, hintsUsed,
                 submitReq, runReq, alerts, route, redirectTimer, code,
                 isRunning, error, sentSnapshots, submitLog, quietElapsed,
                 nStart, nEdit, nSubmit, nRun, nWsMsg, nBlankStart,
                 messages>>

\* a failure handler that falls back to the interview view
StartFailed_EntersLive(i) ==
  /\ OnPage
  /\ i \in DOMAIN startReqs /\ startReqs[i].st = "inflight"
  /\ startReqs' = [startReqs EXCEPT ![i].st = "failed"]
  /\ isLoading' = FALSE
  /\ isStarting' = FALSE
  /\ showSetup' = FALSE
  /\ alerts' = Append(alerts, "start-failed")
  /\ UNCHANGED <<timer, isSubmitting, candidateName, sessionId,
                 isConnected, hintsUsed, currentCode, wsRef, sockets,
                 submitReq, runReq, route, redirectTimer, code, isRunning,
                 error, sentSnapshots, submitLog, quietElapsed, nStart,
                 nEdit, nSubmit, nRun, nWsMsg, nBlankStart, messages>>

\* the start-session request i answers non-2xx, fails on the network, or is
\* aborted by fetchWithTimeout after 2 s
StartFailed(i) ==
  /\ OnPage
  /\ i \in DOMAIN startReqs /\ startReqs[i].st = "inflight"
  /\ startReqs' = [startReqs EXCEPT ![i].st = "failed"]
  /\ isLoading' = FALSE
  /\ isStarting' = FALSE
  /\ alerts' = Append(alerts, "start-failed")
  /\ UNCHANGED <<timer, isSubmitting, showSetup, candidateName, sessionId,
                 isConnected, hintsUsed, currentCode, wsRef, sockets,
                 submitReq, runReq, route, redirectTimer, code, isRunning,
                 error, sentSnapshots, submitLog, quietElapsed, nStart,
                 nEdit, nSubmit, nRun, nWsMsg, nBlankStart,
                 messages>>

\* an interval that runs from the mount on
TimerTick_Always ==
  /\ OnPage
  /\ timer < MaxTimer
  /\ timer' = timer + 1
  /\ UNCHANGED <<isSubmitting, showSetup, candidateName, isStarting,
                 sessionId, isConnected, isLoading, hintsUsed, currentCode,
                 wsRef, startReqs, sockets, submitReq, runReq, alerts, route,
                 redirectTimer, code, isRunning, error, sentSnapshots,
                 submitLog, quietElapsed, nStart, nEdit, nSubmit, nRun,
                 nWsMsg, nBlankStart,
                 messages>>

\* one tick of the elapsed-time interval, which runs unless showSetup or
\* isLoading
TimerTick ==
  /\ OnPage
  /\ ~(showSetup \/ isLoading)
  /\ timer < MaxTimer
  /\ timer' = timer + 1
  /\ UNCHANGED <<isSubmitting, showSetup, candidateName, isStarting,
                 sessionId, isConnected, isLoading, hintsUsed, currentCode,
                 wsRef, startReqs, sockets, submitReq, runReq, alerts, route,
                 redirectTimer, code, isRunning, error, sentSnapshots,
                 submitLog, quietElapsed, nStart, nEdit, nSubmit, nRun,
                 nWsMsg, nBlankStart,
                 messages>>

\* ws.onopen
WsOpen(i) ==
  /\ OnPage
  /\ i \in DOMAIN sockets /\ sockets[i] = "CONNECTING"
  /\ sockets' = [sockets EXCEPT ![i] = "OPEN"]
  /\ UNCHANGED <<timer, isSubmitting, showSetup, candidateName, isStarting,
                 sessionId, isConnected, isLoading, hintsUsed, currentCode,
                 wsRef, startReqs, submitReq, runReq, alerts, route,
                 redirectTimer, code, isRunning, error, sentSnapshots,
                 submitLog, quietElapsed, nStart, nEdit, nSubmit, nRun,
                 nWsMsg, nBlankStart,
                 messages>>

\* ws.onclose: the page's onClose callback clears isConnected
WsClose(i) ==
  /\ OnPage
  /\ i \in DOMAIN sockets /\ sockets[i] \in {"CONNECTING", "OPEN"}
  /\ sockets' = [sockets EXCEPT ![i] = "CLOSED"]
  /\ isConnected' = FALSE
  /\ UNCHANGED <<timer, isSubmitting, showSetup, candidateName, isStarting,
                 sessionId, isLoading, hintsUsed, currentCode, wsRef,
                 startReqs, submitReq, runReq, alerts, route, redirectTimer,
                 code, isRunning, error, sentSnapshots, submitLog,
                 quietElapsed, nStart, nEdit, nSubmit, nRun, nWsMsg, nBlankStart,
                 messages>>

\* sendCodeViaWebSocket: sends only on an OPEN socket
SendCodeViaWebSocket(ws, c) ==
  IF sockets[ws] = "OPEN"
  THEN sentSnapshots' = Append(sentSnapshots, [code |-> c])
  ELSE UNCHANGED sentSnapshots

\* the page's handleCodeChange
HandleCodeChange(c) ==
  /\ currentCode' = c
  /\ IF wsRef # NoSocket /\ sockets[wsRef] = "OPEN"
     THEN SendCodeViaWebSocket(wsRef, c)
     ELSE UNCHANGED sentSnapshots

\* CodeEditor.handleCodeChange: the editor's content changes to c
EditorChange(c) ==
  /\ OnPage /\ ~showSetup
  /\ nEdit < MaxEdits
  /\ c # code
  /\ nEdit' = nEdit + 1
  /\ code' = c
  /\ HandleCodeChange(c)
  /\ quietElapsed' = FALSE
  /\ UNCHANGED <<timer, isSubmitting, showSetup, candidateName, isStarting,
                 sessionId, isConnected, isLoading, hintsUsed, wsRef,
                 startReqs, sockets, submitReq, runReq, alerts, route,
                 redirectTimer, isRunning, error, submitLog, nStart,
                 nSubmit, nRun, nWsMsg, nBlankStart,
                 messages>>

\* 1.5 s pass without an editor change
QuietPeriodElapsed ==
  /\ OnPage
  /\ ~quietElapsed
  /\ quietElapsed' = TRUE
  /\ UNCHANGED <<timer, isSubmitting, showSetup, candidateName, isStarting,
                 sessionId, isConnected, isLoading, hintsUsed, currentCode,
                 wsRef, startReqs, sockets, submitReq, runReq, alerts, route,
                 redirectTimer, code, isRunning, error, sentSnapshots,
                 submitLog, nStart, nEdit, nSubmit, nRun, nWsMsg, nBlankStart,
                 messages>>

\* the closing line handleSubmit puts into the transcript
ClosingLine == [role |-> "ai", text |-> "Great work!"]

\* a click on Submit Solution (disabled while isSubmitting): handleSubmit up
\* to its await
HandleSubmit ==
  /\ OnPage /\ ~showSetup
  /\ ~isSubmitting
  /\ nSubmit < MaxSubmits
  /\ nSubmit' = nSubmit + 1
  /\ IF sessionId = NoSession \/ ~isConnected
     THEN /\ alerts' = Append(alerts, "cannot-submit")
          /\ UNCHANGED <<isSubmitting, messages, submitReq, submitLog>>
     ELSE /\ isSubmitting' = TRUE
          /\ messages' = Append(messages, ClosingLine)
          /\ submitReq' = "inflight"
          /\ submitLog' = Append(submitLog, [sessionId |-> sessionId,
                                             code |-> currentCode,
                                             editor |-> code])
          /\ UNCHANGED alerts
  /\ UNCHANGED <<timer, showSetup, candidateName, isStarting, sessionId,
                 isConnected, isLoading, hintsUsed, currentCode, wsRef,
                 startReqs, sockets, runReq, route, redirectTimer, code,
                 isRunning, error, sentSnapshots, quietElapsed, nStart,
                 nEdit, nRun, nWsMsg, nBlankStart>>

\* the submit request answers 2xx: the redirect is set for 2 s later
SubmitOk ==
  /\ OnPage
  /\ submitReq = "inflight"
  /\ submitReq' = "ok"
  /\ redirectTimer' = TRUE
  /\ UNCHANGED <<timer, isSubmitting, showSetup, candidateName, isStarting,
                 sessionId, isConnected, isLoading, hintsUsed, currentCode,
                 wsRef, startReqs, sockets, runReq, alerts, route, code,
                 isRunning, error, sentSnapshots, submitLog, quietElapsed,
                 nStart, nEdit, nSubmit, nRun, nWsMsg, nBlankStart, messages>>

\* a failure handler that leaves the submitting flag set
SubmitFailed_KeepsFlag ==
  /\ OnPage
  /\ submitReq = "inflight"
  /\ submitReq' = "failed"
  /\ alerts' = Append(alerts, "submit-failed")
  /\ UNCHANGED <<timer, isSubmitting, showSetup, candidateName, isStarting,
                 sessionId, isConnected, isLoading, hintsUsed, currentCode,
                 wsRef, startReqs, sockets, runReq, route, redirectTimer,
                 code, isRunning, error, sentSnapshots, submitLog,
                 quietElapsed, nStart, nEdit, nSubmit, nRun, nWsMsg, nBlankStart,
                 messages>>

\* the submit request answers non-2xx or fails on the network
SubmitFailed ==
  /\ OnPage
  /\ submitReq = "inflight"
  /\ submitReq' = "failed"
  /\ isSubmitting' = FALSE
  /\ alerts' = Append(alerts, "submit-failed")
  /\ UNCHANGED <<timer, showSetup, candidateName, isStarting, sessionId,
                 isConnected, isLoading, hintsUsed, currentCode, wsRef,
                 startReqs, sockets, runReq, route, redirectTimer, code,
                 isRunning, error, sentSnapshots, submitLog, quietElapsed,
                 nStart, nEdit, nSubmit, nRun, nWsMsg, nBlankStart, messages>>

\* the 2 s redirect timer fires: router.push to the dashboard of the session
\* the submitting render saw
RedirectTimerFire ==
  /\ OnPage
  /\ redirectTimer
  /\ redirectTimer' = FALSE
  /\ route' = Dashboard(submitLog[Len(submitLog)].sessionId)
  /\ UNCHANGED <<timer, isSubmitting, showSetup, candidateName, isStarting,
                 sessionId, isConnected, isLoading, hintsUsed, currentCode,
                 wsRef, startReqs, sockets, submitReq, runReq, alerts, code,
                 isRunning, error, sentSnapshots, submitLog, quietElapsed,
                 nStart, nEdit, nSubmit, nRun, nWsMsg, nBlankStart, messages>>

\* a click on Run Code (disabled while isRunning): CodeEditor.handleRunCode
\* calling the page's handleRunCode, up to the await of the request; a page
\* without session or connection throws, which the editor catches at once
RunClick ==
  /\ OnPage /\ ~showSetup
  /\ ~isRunning
  /\ nRun < MaxRuns
  /\ nRun' = nRun + 1
  /\ IF sessionId = NoSession \/ ~isConnected
     THEN /\ error' = "Backend not connected. Cannot execute code."
          /\ UNCHANGED <<isRunning, runReq>>
     ELSE /\ isRunning' = TRUE
          /\ error' = NoError
          /\ runReq' = "inflight"
  /\ UNCHANGED <<timer, isSubmitting, showSetup, candidateName, isStarting,
                 sessionId, isConnected, isLoading, hintsUsed, currentCode,
                 wsRef, startReqs, sockets, submitReq, alerts, route,
                 redirectTimer, code, sentSnapshots, submitLog,
                 quietElapsed, nStart, nEdit, nSubmit, nWsMsg, nBlankStart, messages>>

\* the run request answers 2xx
RunOk ==
  /\ OnPage
  /\ runReq = "inflight"
  /\ runReq' = "ok"
  /\ isRunning' = FALSE
  /\ UNCHANGED <<timer, isSubmitting, showSetup, candidateName, isStarting,
                 sessionId, isConnected, isLoading, hintsUsed, currentCode,
                 wsRef, startReqs, sockets, submitReq, alerts, route,
                 redirectTimer, code, error, sentSnapshots, submitLog,
                 quietElapsed, nStart, nEdit, nSubmit, nRun, nWsMsg, nBlankStart,
                 messages>>

\* the run request answers non-2xx, fails on the network or times out
RunFailed ==
  /\ OnPage
  /\ runReq = "inflight"
  /\ runReq' = "failed"
  /\ error' = "Failed to run code"
  /\ isRunning' = FALSE
  /\ UNCHANGED <<timer, isSubmitting, showSetup, candidateName, isStarting,
                 sessionId, isConnected, isLoading, hintsUsed, currentCode,
                 wsRef, startReqs, sockets, submitReq, alerts, route,
                 redirectTimer, code, sentSnapshots, submitLog,
                 quietElapsed, nStart, nEdit, nSubmit, nRun, nWsMsg, nBlankStart,
                 messages>>

\* a handler that counts AI lines as hints
HandleWSMessage_CountsAll(i, m) ==
  /\ OnPage
  /\ i \in DOMAIN sockets /\ sockets[i] = "OPEN"
  /\ nWsMsg < MaxWsMsgs
  /\ nWsMsg' = nWsMsg + 1
  /\ messages' = IF m.type \in {"ai_message", "hint"}
                 THEN Append(messages, [role |-> "ai", text |-> m.type])
                 ELSE messages
  /\ hintsUsed' = IF m.type \in {"hint", "ai_message"} THEN hintsUsed + 1 ELSE hintsUsed
  /\ route' = IF m.type = "interview_status" /\ m.status = "completed"
              THEN Dashboard(startReqs[i].closureSessionId)
              ELSE route
  /\ UNCHANGED <<timer, isSubmitting, showSetup, candidateName, isStarting,
                 sessionId, isConnected, isLoading, currentCode, wsRef,
                 startReqs, sockets, submitReq, runReq, alerts,
                 redirectTimer, code, isRunning, error, sentSnapshots,
                 submitLog, quietElapsed, nStart, nEdit, nSubmit, nRun,
                 nBlankStart>>

\* handleWSMessage as socket i holds it: the callback of the render in which
\* its startInterview ran.  The transcript line of a message is tagged with
\* the message's type.
HandleWSMessage(i, m) ==
  /\ OnPage
  /\ i \in DOMAIN sockets /\ sockets[i] = "OPEN"
  /\ nWsMsg < MaxWsMsgs
  /\ nWsMsg' = nWsMsg + 1
  /\ messages' = IF m.type \in {"ai_message", "hint"}
                 THEN Append(messages, [role |-> "ai", text |-> m.type])
                 ELSE messages
  /\ hintsUsed' = IF m.type = "hint" THEN hintsUsed + 1 ELSE hintsUsed
  /\ route' = IF m.type = "interview_status" /\ m.status = "completed"
              THEN Dashboard(startReqs[i].closureSessionId)
              ELSE route
  /\ UNCHANGED <<timer, isSubmitting, showSetup, candidateName, isStarting,
                 sessionId, isConnected, isLoading, currentCode, wsRef,
                 startReqs, sockets, submitReq, runReq, alerts,
                 redirectTimer, code, isRunning, error, sentSnapshots,
                 submitLog, quietElapsed, nStart, nEdit, nSubmit, nRun,
                 nBlankStart>>

\* --------------------------------------------------- LiveKitRoomWrapperInner
MaxInflight == 2   \* toggles of one control awaiting the track
MaxSnaps == 2      \* calls of the exposed sendCodeSnapshot

Variants == {"test-ui.mjs", "LiveKitRoom.tsx"}
NoToken == "null"

\* the component's useState values, before its mount effect
InitRoomVars(v, url) ==
  /\ variant = v /\ livekitUrl = url
  /\ token = NoToken /\ wrapperError = NoError /\ wrapperIsLoading = TRUE
  /\ tokenFetch = "none"
  /\ connectionState = "Unmounted" /\ everConnected = FALSE
  /\ lkIsMuted = FALSE /\ lkIsCameraOff = FALSE
  /\ micTrackEnabled = TRUE /\ camTrackEnabled = TRUE
  /\ micOps = <<>> /\ camOps = <<>>
  /\ published = <<>> /\ nSnap = 0
  /\ micOddToggles = FALSE /\ camOddToggles = FALSE
  /\ dataLog = <<>>

\* what the wrapper renders
View ==
  IF wrapperIsLoading THEN "loading"
  ELSE IF wrapperError # NoError \/ token = NoToken \/ ~livekitUrl
       THEN IF variant = "test-ui.mjs" THEN "demo" ELSE "error"
       ELSE "room"

DataFrame == UNCHANGED <<published, nSnap, dataLog>>

ContentFrame == UNCHANGED <<lkIsMuted, lkIsCameraOff, micTrackEnabled,
                            camTrackEnabled, micOps, camOps, published, nSnap,
                            micOddToggles, camOddToggles, dataLog>>

\* the mount effect: start fetchToken, or give up without a server URL
MountEffect ==
  /\ tokenFetch = "none"
  /\ IF livekitUrl
     THEN /\ tokenFetch' = "pending"
          /\ UNCHANGED <<wrapperError, wrapperIsLoading>>
     ELSE /\ tokenFetch' = "skipped"
          /\ wrapperError' = "LiveKit URL not configured"
          /\ wrapperIsLoading' = FALSE
  /\ UNCHANGED <<variant, livekitUrl, token, connectionState, everConnected>>
  /\ ContentFrame

\* the token request answers 2xx: the room is rendered and starts to connect
FetchTokenOk ==
  /\ tokenFetch = "pending"
  /\ tokenFetch' = "ok"
  /\ token' = "token"
  /\ wrapperIsLoading' = FALSE
  /\ connectionState' = "Connecting"
  /\ UNCHANGED <<variant, livekitUrl, wrapperError, everConnected>>
  /\ ContentFrame

\* the token request answers non-2xx or fails on the network
FetchTokenFailed ==
  /\ tokenFetch = "pending"
  /\ tokenFetch' = "failed"
  /\ wrapperError' = "Failed to get token"
  /\ wrapperIsLoading' = FALSE
  /\ UNCHANGED <<variant, livekitUrl, token, connectionState, everConnected>>
  /\ ContentFrame

\* the abort timer fires before an answer: fetch rejects with AbortError
FetchTokenAborted ==
  /\ tokenFetch = "pending"
  /\ tokenFetch' = "aborted"
  /\ IF variant = "test-ui.mjs"
     THEN UNCHANGED <<wrapperError, wrapperIsLoading>>
     ELSE /\ wrapperError' = "Connection timed out"
          /\ wrapperIsLoading' = FALSE
  /\ UNCHANGED <<variant, livekitUrl, token, connectionState, everConnected>>
  /\ ContentFrame

\* LKRoom onConnected, and the room's connection state after it
LkConnected ==
  /\ connectionState = "Connecting"
  /\ connectionState' = "Connected"
  /\ everConnected' = TRUE
  /\ UNCHANGED <<variant, livekitUrl, token, wrapperError, wrapperIsLoading,
                 tokenFetch>>
  /\ ContentFrame

LkReconnecting ==
  /\ connectionState = "Connected"
  /\ connectionState' = "Reconnecting"
  /\ UNCHANGED <<variant, livekitUrl, token, wrapperError, wrapperIsLoading,
                 tokenFetch, everConnected>>
  /\ ContentFrame

LkReconnected ==
  /\ connectionState = "Reconnecting"
  /\ connectionState' = "Connected"
  /\ UNCHANGED <<variant, livekitUrl, token, wrapperError, wrapperIsLoading,
                 tokenFetch, everConnected>>
  /\ ContentFrame

\* LKRoom onDisconnected
LkDisconnected ==
  /\ connectionState \in {"Connected", "Reconnecting"}
  /\ connectionState' = "Disconnected"
  /\ UNCHANGED <<variant, livekitUrl, token, wrapperError, wrapperIsLoading,
                 tokenFetch, everConnected>>
  /\ ContentFrame

\* LKRoom onError: setError, after which the wrapper renders no room and
\* InterviewRoomContent is gone with its state
LkError ==
  /\ connectionState # "Unmounted"
  /\ wrapperError' = "LiveKit error"
  /\ connectionState' = "Unmounted"
  /\ lkIsMuted' = FALSE /\ lkIsCameraOff' = FALSE
  /\ micOps' = <<>> /\ camOps' = <<>>
  /\ UNCHANGED <<variant, livekitUrl, token, wrapperIsLoading, tokenFetch,
                 everConnected, micTrackEnabled, camTrackEnabled>>
  /\ DataFrame
  /\ micOddToggles' = FALSE /\ camOddToggles' = FALSE

\* a toggle awaiting its track: the flag value it computed from the render it
\* was called in, and whether the track has been switched
ToggleOp(newState) == [newState |-> newState, switched |-> FALSE]

\* the oldest awaiting toggle whose track switch is still to come, or 0
FirstUnswitched(ops) ==
  IF \E k \in DOMAIN ops : ~ops[k].switched
  THEN CHOOSE k \in DOMAIN ops :
         ~ops[k].switched /\ \A h \in 1..(k - 1) : ops[h].switched
  ELSE 0

\* InterviewRoomContent.toggleMic up to its await
LkToggleMic ==
  /\ connectionState # "Unmounted"
  /\ Len(micOps) < MaxInflight
  /\ micOps' = Append(micOps, ToggleOp(~lkIsMuted))
  /\ UNCHANGED <<variant, livekitUrl, token, wrapperError, wrapperIsLoading,
                 tokenFetch, connectionState, everConnected, lkIsMuted,
                 lkIsCameraOff, micTrackEnabled, camTrackEnabled, camOps>>
  /\ DataFrame
  /\ micOddToggles' = ~micOddToggles /\ UNCHANGED camOddToggles

\* inside setMicrophoneEnabled: the microphone track is switched
LkMicTrackSet ==
  /\ FirstUnswitched(micOps) # 0
  /\ micTrackEnabled' = ~micOps[FirstUnswitched(micOps)].newState
  /\ micOps' = [micOps EXCEPT ![FirstUnswitched(micOps)].switched = TRUE]
  /\ UNCHANGED <<variant, livekitUrl, token, wrapperError, wrapperIsLoading,
                 tokenFetch, connectionState, everConnected, lkIsMuted,
                 lkIsCameraOff, camTrackEnabled, camOps>>
  /\ DataFrame
  /\ UNCHANGED <<micOddToggles, camOddToggles>>

\* setMicrophoneEnabled has resolved: toggleMic goes on with setIsMuted
LkMicResolved ==
  /\ micOps # <<>> /\ Head(micOps).switched
  /\ lkIsMuted' = Head(micOps).newState
  /\ micOps' = Tail(micOps)
  /\ UNCHANGED <<variant, livekitUrl, token, wrapperError, wrapperIsLoading,
                 tokenFetch, connectionState, everConnected, lkIsCameraOff,
                 micTrackEnabled, camTrackEnabled, camOps>>
  /\ DataFrame
  /\ UNCHANGED <<micOddToggles, camOddToggles>>

\* InterviewRoomContent.toggleCamera up to its await
LkToggleCamera ==
  /\ connectionState # "Unmounted"
  /\ Len(camOps) < MaxInflight
  /\ camOps' = Append(camOps, ToggleOp(~lkIsCameraOff))
  /\ UNCHANGED <<variant, livekitUrl, token, wrapperError, wrapperIsLoading,
                 tokenFetch, connectionState, everConnected, lkIsMuted,
                 lkIsCameraOff, micTrackEnabled, camTrackEnabled, micOps>>
  /\ DataFrame
  /\ camOddToggles' = ~camOddToggles /\ UNCHANGED micOddToggles

\* inside setCameraEnabled: the camera track is switched
LkCameraTrackSet ==
  /\ FirstUnswitched(camOps) # 0
  /\ camTrackEnabled' = ~camOps[FirstUnswitched(camOps)].newState
  /\ camOps' = [camOps EXCEPT ![FirstUnswitched(camOps)].switched = TRUE]
  /\ UNCHANGED <<variant, livekitUrl, token, wrapperError, wrapperIsLoading,
                 tokenFetch, connectionState, everConnected, lkIsMuted,
                 lkIsCameraOff, micTrackEnabled, micOps>>
  /\ DataFrame
  /\ UNCHANGED <<micOddToggles, camOddToggles>>

\* setCameraEnabled has resolved: toggleCamera goes on with setIsCameraOff
LkCameraResolved ==
  /\ camOps # <<>> /\ Head(camOps).switched
  /\ lkIsCameraOff' = Head(camOps).newState
  /\ camOps' = Tail(camOps)
  /\ UNCHANGED <<variant, livekitUrl, token, wrapperError, wrapperIsLoading,
                 tokenFetch, connectionState, everConnected, lkIsMuted,
                 micTrackEnabled, camTrackEnabled, micOps>>
  /\ DataFrame
  /\ UNCHANGED <<micOddToggles, camOddToggles>>

\* a snapshot that goes out whatever the connection state
SendCodeSnapshot_Always(c) ==
  /\ connectionState # "Unmounted"
  /\ nSnap < MaxSnaps
  /\ nSnap' = nSnap + 1
  /\ published' = Append(published, c)
  /\ UNCHANGED <<variant, livekitUrl, token, wrapperError, wrapperIsLoading,
                 tokenFetch, connectionState, everConnected, lkIsMuted,
                 lkIsCameraOff, micTrackEnabled, camTrackEnabled, micOps,
                 camOps>>
  /\ UNCHANGED <<micOddToggles, camOddToggles>>
  /\ UNCHANGED dataLog

\* InterviewRoomContent.sendCodeSnapshot, as exposed on window.__areteSendCode
\* while the room content is mounted
SendCodeSnapshot(c) ==
  /\ connectionState # "Unmounted"
  /\ nSnap < MaxSnaps
  /\ nSnap' = nSnap + 1
  /\ published' = IF connectionState = "Connected"
                  THEN Append(published, c)
                  ELSE published
  /\ UNCHANGED <<variant, livekitUrl, token, wrapperError, wrapperIsLoading,
                 tokenFetch, connectionState, everConnected, lkIsMuted,
                 lkIsCameraOff, micTrackEnabled, camTrackEnabled, micOps,
                 camOps>>
  /\ UNCHANGED <<micOddToggles, camOddToggles>>
  /\ UNCHANGED dataLog

\* ------------------------------------------------------------ data channel
MaxData == 2   \* payloads received on the data channel

\* Payloads: the decoded text as a sequence of words, and what JSON.parse
\* makes of it ("invalid" when it throws)
NotJson == [type |-> "invalid", role |-> "none", text |-> <<>>]
Json(type, role, text) == [type |-> type, role |-> role, text |-> text]
Payloads ==
  {[raw |-> <<"hello">>, json |-> NotJson],
   [raw |-> <<" ">>, json |-> NotJson],
   [raw |-> <<"{transcript,candidate,hi}">>,
    json |-> Json("transcript", "candidate", <<"hi">>)],
   [raw |-> <<"{transcript,agent,hi}">>,
    json |-> Json("transcript", "agent", <<"hi">>)],
   [raw |-> <<"{transcript,agent,You: hi}">>,
    json |-> Json("transcript", "agent", <<"You:", "hi">>)],
   [raw |-> <<"{message,hi}">>, json |-> Json("message", "none", <<"hi">>)],
   [raw |-> <<"{status,hi}">>, json |-> Json("status", "none", <<"hi">>)],
   [raw |-> <<"{hi}">>, json |-> Json("none", "none", <<"hi">>)]}

\* String.prototype.trim on a decoded payload
TrimText(raw) == IF raw = <<" ">> THEN <<>> ELSE raw

\* what handleDataReceived hands to onMessage for payload p: a sequence of
\* at most one text
DataLines(p) ==
  IF p.json = NotJson
  THEN IF TrimText(p.raw) # <<>> THEN <<p.raw>> ELSE <<>>
  ELSE IF p.json.type = "transcript"
       THEN IF variant = "LiveKitRoom.tsx"
               /\ p.json.role \in {"candidate", "user"}
            THEN <<(<<"You:">> \o p.json.text)>>
            ELSE <<p.json.text>>
       ELSE IF p.json.type = "message"
            THEN <<p.json.text>>
            ELSE <<>>

\* RoomEvent.DataReceived from the remote party: handleDataReceived
HandleDataReceived(p) ==
  /\ connectionState = "Connected"
  /\ Len(dataLog) < MaxData
  /\ dataLog' = Append(dataLog, p)
  /\ IF DataLines(p) = <<>>
     THEN UNCHANGED transcriptVars
     ELSE OnMessage(DataLines(p)[1])
  /\ UNCHANGED <<variant, livekitUrl, token, wrapperError, wrapperIsLoading,
                 tokenFetch, connectionState, everConnected, lkIsMuted,
                 lkIsCameraOff, micTrackEnabled, camTrackEnabled, micOps,
                 camOps, published, nSnap, micOddToggles, camOddToggles>>
  /\ UNCHANGED <<demoVars, ghostVars, pageVars, camVars>>

\* ------------------------------------------------------------- DemoModeAvatar
\* the camera effect has run once: the camera is on and the first
\* getUserMedia request is pending
InitCamera ==
  /\ isCameraOff = FALSE /\ cameraError = NoError
  /\ cameraStreamReady = FALSE /\ mediaStreamRef = NoStream
  /\ gumReqs = <<[st |-> "pending", mounted |-> TRUE, late |-> FALSE]>>
  /\ nCamToggle = 0

\* the component right after its mount effects: recognition.start() called
\* (not muted), greeting timer pending, nothing spoken yet, camera requested
InitDemoVars ==
  /\ isSpeaking = FALSE /\ isMutedRef = FALSE /\ isListening = FALSE
  /\ hasUserInteractedRef = FALSE /\ showStartPrompt = TRUE
  /\ ttsError = NoError /\ speechError = NoError
  /\ audioQueueRef = <<>> /\ isPlayingRef = FALSE
  /\ rec = "starting" /\ cooldown = FALSE
  /\ pendingTranscriptRef = <<>> /\ transcriptTimeoutRef = FALSE
  /\ restartScheduledRef = FALSE /\ restartTimeoutRef = NoTimer
  /\ serviceNotAllowedRetryCount = 0 /\ ttsJustEndedRef = FALSE
  /\ hasGreetedRef = FALSE
  /\ speechSynthesisInWindow \in BOOLEAN
  /\ turns = <<>> /\ kickTimers = <<>> /\ ttsClearTimers = 0
  /\ initialTimer = TRUE /\ chats = <<>>
  /\ nSpeak = 0 /\ nResult = 0
  /\ mounted = TRUE
  /\ InitCamera

InitTranscript ==
  /\ messages = <<>> /\ delivered = <<>> /\ utteranceStartedAt = 0
  /\ nShort = 0 /\ recError = NoError /\ respondedRecently = FALSE
  /\ rejections = 0
  /\ sinceResult = 0 /\ sinceArmed = 0

\* the fallback interviewer mounted in a page that sits on its setup values
InitDemo ==
  /\ InitDemoVars /\ InitTranscript /\ InitPageVars
  /\ InitRoomVars("test-ui.mjs", FALSE)

\* one speech turn's events: the TTS fetch, answered with one of answers,
\* the audio element, the browser's utterance
TurnEvents(answers) ==
  \E i \in 1..Len(turns) :
    \/ \E r \in answers : TTSFetchOk(i, r)
    \/ \E r \in answers : TTSFetchBad(i, r)
    \/ AudioPlayResolved(i)
    \/ AudioFailed(i)
    \/ AudioEnded(i)
    \/ UtteranceStart(i)
    \/ UtteranceEnd(i)
    \/ UtteranceError(i)

\* Microphone scenario: the exposed speak function, the speech turns, the
\* recognizer's lifecycle and errors, the restart timers and the mute button.
NextMic ==
  \/ CallSpeakAI
  \/ KickTimerFire
  \/ TtsJustEndedTimerFire
  \/ RestartTimerFire
  \/ TurnEvents(ServedOrThrew)
  \/ RecOnStart
  \/ \E e \in RecErrors : RecOnError(e)
  \/ RecOnEnd
  \/ ToggleMic

SpecMic == InitDemo /\ [][NextMic]_vars

\* Conversation scenario: everything that writes the transcript or reads the
\* recognition buffer (recognition results, the silence timer, the cooldown,
\* chat answers, the greeting by click and by timer) and the speech turns
\* those start.  The recognizer's end event and the restart timers, which
\* leave these variables alone, do not occur: the recognizer keeps
\* delivering results after stop().
NextTalk ==
  \/ TurnEvents(ServedOrThrew)
  \/ RecOnStart
  \/ \E t \in FullResults : RecOnResult(t)
  \/ TranscriptTimeoutFire
  \/ CooldownElapsed
  \/ \E r \in AIResponses : ChatReplyOk(r)
  \/ ChatReplyFailed
  \/ HandleStartInterview
  \/ InitialTimerFire
  \/ HandleInteraction

SpecTalk == InitDemo /\ [][NextTalk]_vars

\* Listening scenario: the candidate talks and the interviewer answers.
\* Recognition results of every kind, the silence timer, the cooldown, the
\* chat answers and the speech turns they start; as in the conversation
\* scenario the recognizer keeps delivering results after stop().
NextListen ==
  \/ TurnEvents(ServedOrThrew)
  \/ RecOnStart
  \/ \E t \in ResultTexts : Hear(t, MaxHeard)
  \/ TranscriptTimeoutFire
  \/ CooldownElapsed
  \/ ResponseWindowElapsed
  \/ \E r \in AIResponses : ChatReplyOk(r)
  \/ ChatReplyFailed

SpecListen == InitDemo /\ [][NextListen]_vars

\* the silence timer's callback, run by the browser no earlier than 1500 ms
\* after setTimeout
WindowClosed ==
  /\ sinceArmed = WindowTicks
  /\ TranscriptTimeoutFire

\* Silence-window scenario: the candidate talks while time passes.  Final
\* and interim recognition results, the clock, the silence timer firing
\* when it is due, and the cooldown.
NextSilence ==
  \/ RecOnStart
  \/ \E t \in ResultTexts : Hear(t, MaxHeard)
  \/ InterimResult
  \/ Tick
  \/ WindowClosed
  \/ CooldownElapsed

SpecSilence == InitDemo /\ [][NextSilence]_vars

\* Camera scenario: the camera button, the getUserMedia requests and their
\* answers, and the component being unmounted at any point.  The browser
\* has navigator.mediaDevices.
NextCamera ==
  \/ ToggleCamera
  \/ \E i \in 1..(MaxCamToggles + 1) : \E videoOk \in BOOLEAN :
        GetUserMediaResolved(i, videoOk)
  \/ \E i \in 1..(MaxCamToggles + 1) : \E name \in MediaErrors :
        GetUserMediaRejected(i, name)
  \/ Unmount

SpecCamera == InitDemo /\ [][NextCamera]_vars

\* Teardown scenario: a conversation (one utterance, its chat answer, the
\* speech turn, the recognizer's lifecycle and restart timer) that is cut
\* short by the component being unmounted at any point.
NextTeardown ==
  \/ Unmount
  \/ TurnEvents(ServedOrThrew)
  \/ RecOnStart
  \/ RecOnEnd
  \/ RestartTimerFire
  \/ \E t \in FullResults : RecOnResult(t)
  \/ TranscriptTimeoutFire
  \/ \E r \in AIResponses : ChatReplyOk(r)
  \/ ChatReplyFailed

SpecTeardown == InitDemo /\ [][NextTeardown]_vars

\* Speech scenario: the exposed speak function with its queue timer, the
\* greeting by click, and speech turns whose fetch gets any of the answers
\* or throws.
NextSpeech ==
  \/ TurnEvents(TTSAnswers \cup {NoAnswer})
  \/ CallSpeakAI
  \/ KickTimerFire
  \/ HandleStartInterview

SpecSpeech == InitDemo /\ [][NextSpeech]_vars

\* The speech scenario with the browser delivering what it owes: every
\* fetch settles, every play() settles, an audio element that plays and an
\* utterance that is queued or spoken reach their end or error event, and
\* the 100 ms queue timer fires.  Calls and clicks are under no obligation.
SpecSpeechFair ==
  /\ SpecSpeech
  /\ WF_vars(TurnEvents(TTSAnswers \cup {NoAnswer}))
  /\ WF_vars(KickTimerFire)

\* page actions leave the fallback interviewer and the message log alone
PageFrame == UNCHANGED <<demoVars, delivered, ghostVars, roomVars, camVars>>

InitPage ==
  /\ InitPageVars /\ InitTranscript /\ InitDemoVars
  /\ InitRoomVars("LiveKitRoom.tsx", TRUE)

\* Session start scenario: the setup screen, start requests and their
\* answers, the elapsed-time interval, the sockets and their messages.
NextStart ==
  \/ \E n \in Names : SetCandidateName(n) /\ PageFrame
  \/ StartClick /\ PageFrame
  \/ StartEnter /\ PageFrame
  \/ \E i \in 1..MaxStarts : StartOk(i) /\ PageFrame
  \/ \E i \in 1..MaxStarts : StartFailed(i) /\ PageFrame
  \/ TimerTick /\ PageFrame
  \/ \E i \in 1..MaxStarts : WsOpen(i) /\ PageFrame
  \/ \E i \in 1..MaxStarts : WsClose(i) /\ PageFrame
  \/ \E i \in 1..MaxStarts : \E m \in WSMessages :
        HandleWSMessage(i, m) /\ PageFrame

SpecStart == InitPage /\ [][NextStart]_vars

\* Editor scenario: a session is started from the button, then the editor,
\* the code relay on the socket, run and submit with their answers.
NextEditor ==
  \/ \E n \in Names : SetCandidateName(n) /\ PageFrame
  \/ StartClick /\ PageFrame
  \/ \E i \in 1..MaxStarts : StartOk(i) /\ PageFrame
  \/ \E i \in 1..MaxStarts : WsOpen(i) /\ PageFrame
  \/ \E i \in 1..MaxStarts : WsClose(i) /\ PageFrame
  \/ \E c \in Codes \cup {StarterCode} : EditorChange(c) /\ PageFrame
  \/ QuietPeriodElapsed /\ PageFrame
  \/ HandleSubmit /\ PageFrame
  \/ SubmitOk /\ PageFrame
  \/ SubmitFailed /\ PageFrame
  \/ RedirectTimerFire /\ PageFrame
  \/ RunClick /\ PageFrame
  \/ RunOk /\ PageFrame
  \/ RunFailed /\ PageFrame

SpecEditor == InitPage /\ [][NextEditor]_vars

\* room actions leave the page and the fallback interviewer alone
RoomFrame == UNCHANGED <<demoVars, transcriptVars, ghostVars, pageVars,
                         camVars>>

InitRoom ==
  /\ InitPageVars /\ InitTranscript /\ InitDemoVars
  /\ \E v \in Variants : \E url \in BOOLEAN : InitRoomVars(v, url)

\* Transport scenario: the wrapper of either source from its mount on, the
\* token request, the room's connection events and the room's controls.
NextRoom ==
  \/ MountEffect /\ RoomFrame
  \/ FetchTokenOk /\ RoomFrame
  \/ FetchTokenFailed /\ RoomFrame
  \/ FetchTokenAborted /\ RoomFrame
  \/ LkConnected /\ RoomFrame
  \/ LkReconnecting /\ RoomFrame
  \/ LkReconnected /\ RoomFrame
  \/ LkDisconnected /\ RoomFrame
  \/ LkError /\ RoomFrame
  \/ LkToggleMic /\ RoomFrame
  \/ LkMicTrackSet /\ RoomFrame
  \/ LkMicResolved /\ RoomFrame
  \/ LkToggleCamera /\ RoomFrame
  \/ LkCameraTrackSet /\ RoomFrame
  \/ LkCameraResolved /\ RoomFrame
  \/ \E c \in Codes \cup {StarterCode} : SendCodeSnapshot(c) /\ RoomFrame

SpecRoom == InitRoom /\ [][NextRoom]_vars

\* Code relay scenario: both ways a code snapshot leaves the client, the
\* page's WebSocket (from session start through the socket's open and close)
\* and the room's data channel (from the wrapper's mount through the room's
\* connection states).
NextRelay ==
  \/ \E n \in Names : SetCandidateName(n) /\ PageFrame
  \/ StartClick /\ PageFrame
  \/ \E i \in 1..MaxStarts : StartOk(i) /\ PageFrame
  \/ \E i \in 1..MaxStarts : WsOpen(i) /\ PageFrame
  \/ \E i \in 1..MaxStarts : WsClose(i) /\ PageFrame
  \/ \E c \in Codes \cup {StarterCode} : EditorChange(c) /\ PageFrame
  \/ MountEffect /\ RoomFrame
  \/ FetchTokenOk /\ RoomFrame
  \/ LkConnected /\ RoomFrame
  \/ LkReconnecting /\ RoomFrame
  \/ LkReconnected /\ RoomFrame
  \/ LkDisconnected /\ RoomFrame
  \/ \E c \in Codes \cup {StarterCode} : SendCodeSnapshot(c) /\ RoomFrame

SpecRelay == InitPage /\ [][NextRelay]_vars

\* Data channel scenario: the wrapper of either source from its mount on,
\* the room's connection events, and payloads arriving from the remote
\* party.
NextData ==
  \/ MountEffect /\ RoomFrame
  \/ FetchTokenOk /\ RoomFrame
  \/ LkConnected /\ RoomFrame
  \/ LkReconnecting /\ RoomFrame
  \/ LkReconnected /\ RoomFrame
  \/ LkDisconnected /\ RoomFrame
  \/ LkError /\ RoomFrame
  \/ \E p \in Payloads : HandleDataReceived(p)

SpecData == InitRoom /\ [][NextData]_vars

\* ------------------------------------------------------------- properties
RecognitionActive == rec \in {"starting", "running"}
SynthesisActive == isPlayingRef

\* C1: in the fallback interviewer recognition is never active (started and
\* not told to stop) while the speaking flag isPlayingRef is set.
C1_MutualExclusion == ~(RecognitionActive /\ SynthesisActive)

\* C2: at most one utterance is between the start of speakText and
\* handleTTSComplete at any time, whoever asked for it.
C2_OneUtteranceAtATime == Len(turns) <= 1

\* the number of the __areteSpeakAI call that passed this text, 0 for a text
\* of another origin
CallIndex(text) ==
  IF \E i \in 1..nSpeak : SpeakArg(i) = text
  THEN CHOOSE i \in 1..nSpeak : SpeakArg(i) = text
  ELSE 0

\* the texts in the order they began or are due to begin speaking: the turns
\* under way, then the text the 100 ms timer holds, then the queue
SpeakingOrder ==
  [i \in 1..Len(turns) |-> turns[i].text] \o kickTimers \o audioQueueRef

\* C3: utterances passed to the exposed speak function are spoken in call
\* order: no utterance has begun while one requested earlier is still waiting.
C3_FifoOrder ==
  \A a, b \in 1..Len(SpeakingOrder) :
    (a < b /\ CallIndex(SpeakingOrder[a]) > 0
           /\ CallIndex(SpeakingOrder[b]) > 0)
      => CallIndex(SpeakingOrder[a]) < CallIndex(SpeakingOrder[b])

\* C4: the transcript is append-only and in finalization order: a step
\* leaves every existing entry in place, and adds at most one entry, at the
\* end, which is the entry of the text handed to onMessage in that step (a
\* candidate utterance when its silence timer fires, an AI line when it is
\* delivered).
C4_TranscriptAppendOnly ==
  [][\/ /\ messages' = messages
        /\ delivered' = delivered
     \/ /\ Len(delivered') = Len(delivered) + 1
        /\ messages' =
             Append(messages, MessageEntry(delivered'[Len(delivered')]))]_vars

\* C4 witness: a candidate entry is last in the transcript although another
\* entry was added after that utterance had begun: the order is that of
\* finalization, not of initiation.
C4_Witness ==
  /\ Len(messages) >= 2
  /\ messages[Len(messages)].role = "candidate"
  /\ pendingTranscriptRef = <<>>
  /\ utteranceStartedAt < Len(messages) - 1

\* C5: once the token request has been aborted by its timeout the wrapper is
\* out of its loading state.
C5_TimeoutLeavesLoading == tokenFetch = "aborted" => View # "loading"

\* C6: a wrapper whose room has connected never renders the fallback
\* interviewer.
C6_NoFallbackAfterConnect == ~(everConnected /\ View = "demo")

StartFailureStep ==
  \E i \in DOMAIN startReqs :
     startReqs[i].st = "inflight" /\ startReqs'[i].st = "failed"

NoStartSucceeded == \A i \in DOMAIN startReqs : startReqs[i].st # "ok"

\* C7: while no start request has succeeded there is no session id, no
\* socket, the setup screen is shown and the timer is 0; the step in which a
\* start request fails shows an alert, changes none of these, and clears
\* isStarting and isLoading so the Start button works again.
C7_StartFailure ==
  /\ [](NoStartSucceeded =>
          /\ sessionId = NoSession
          /\ wsRef = NoSocket
          /\ \A i \in DOMAIN sockets : sockets[i] = "none"
          /\ showSetup
          /\ route = NoRoute
          /\ timer = 0)
  /\ [][StartFailureStep =>
          /\ alerts' = Append(alerts, "start-failed")
          /\ sessionId' = sessionId
          /\ wsRef' = wsRef
          /\ sockets' = sockets
          /\ showSetup' = showSetup
          /\ timer' = timer
          /\ ~isStarting'
          /\ ~isLoading']_vars

\* C7 witness: the first start request failed, the page is on the setup
\* screen with timer 0 and no session, and a second request, made after the
\* failure, is in flight.
C7_Witness ==
  /\ Len(startReqs) = 2
  /\ startReqs[1].st = "failed"
  /\ startReqs[2].st = "inflight"
  /\ isStarting
  /\ alerts = <<"start-failed">>
  /\ showSetup /\ sessionId = NoSession /\ timer = 0

SubmitFailureStep == submitReq = "inflight" /\ submitReq' = "failed"

RunFailureStep == runReq = "inflight" /\ runReq' = "failed"

\* C8: the step in which a submit request fails clears isSubmitting, shows
\* an alert, and leaves the page's and the editor's code, the interview view
\* and the route as they were, with no redirect pending; the step in which a
\* run request fails clears isRunning, sets the editor's error and leaves
\* the code as it was.
C8_FailureKeepsCode ==
  [][/\ SubmitFailureStep =>
          /\ ~isSubmitting'
          /\ alerts' = Append(alerts, "submit-failed")
          /\ currentCode' = currentCode
          /\ code' = code
          /\ ~showSetup'
          /\ route' = NoRoute
          /\ ~redirectTimer'
     /\ RunFailureStep =>
          /\ ~isRunning'
          /\ error' # NoError
          /\ code' = code
          /\ currentCode' = currentCode
          /\ ~showSetup']_vars

\* C8 witness: a submit request failed and a second one, with the same
\* edited code, is in flight; a run request failed, its error is shown and
\* Run can be clicked again.
C8_Witness ==
  /\ Len(submitLog) = 2
  /\ submitReq = "inflight"
  /\ alerts = <<"submit-failed">>
  /\ code # StarterCode
  /\ submitLog[1].code = code /\ submitLog[2].code = code
  /\ runReq = "failed" /\ ~isRunning /\ error # NoError /\ nRun < MaxRuns

\* C9: in the interview view no click on Submit is refused, and every
\* submit request carries the editor's content.
C9_SubmitAlwaysSent ==
  /\ \A i \in DOMAIN alerts : alerts[i] # "cannot-submit"
  /\ \A i \in DOMAIN submitLog : submitLog[i].code = submitLog[i].editor

\* C10: a code snapshot goes out only in a step that leaves the editor's
\* content alone, taken when 1.5 s have passed since the last change, and it
\* carries the editor's content.
C10_TrailingDebounce ==
  [][Len(sentSnapshots') > Len(sentSnapshots) =>
        /\ code' = code
        /\ quietElapsed
        /\ sentSnapshots'[Len(sentSnapshots')].code = code]_vars

SocketOpen == wsRef # NoSocket /\ sockets[wsRef] = "OPEN"

\* C11: a call of sendCodeSnapshot publishes its code when the room is
\* Connected and otherwise changes nothing; an editor change sends its code
\* on the socket when the socket is OPEN and otherwise sends nothing; and
\* nothing is published or sent in any other step, so nothing is delivered
\* later.
C11_SnapshotNoOpUnlessConnected ==
  [][/\ nSnap' # nSnap =>
          /\ wrapperError' = wrapperError
          /\ IF connectionState = "Connected"
             THEN Len(published') = Len(published) + 1
             ELSE published' = published
     /\ published' # published =>
          nSnap' # nSnap /\ connectionState = "Connected"
     /\ nEdit' # nEdit =>
          IF SocketOpen
          THEN sentSnapshots' = Append(sentSnapshots, [code |-> code'])
          ELSE sentSnapshots' = sentSnapshots
     /\ sentSnapshots' # sentSnapshots =>
          nEdit' # nEdit /\ SocketOpen]_vars

\* C11 witness: a snapshot call made while the room was not Connected and an
\* editor change made while the socket was not OPEN left nothing behind,
\* although room and socket are connected by now.
C11_Witness ==
  /\ nSnap = 1 /\ published = <<>> /\ connectionState = "Connected"
  /\ nEdit = 1 /\ sentSnapshots = <<>> /\ SocketOpen

WithoutStartState ==
  <<timer, isSubmitting, showSetup, isStarting, sessionId, isConnected,
    isLoading, hintsUsed, currentCode, wsRef, startReqs, sockets, submitReq,
    runReq, alerts, route, messages>>

\* C12: a start request goes out, and isStarting or isLoading is raised, only
\* in a step taken with a name that is non-empty after trimming, and the
\* request carries that name; a call of startInterview with an empty or
\* blank name issues no request and leaves the page's state as it was.
C12_StartNeedsName ==
  /\ [](\A i \in DOMAIN startReqs : startReqs[i].name # "")
  /\ [][/\ (\/ Len(startReqs') > Len(startReqs)
            \/ (isStarting' /\ ~isStarting)
            \/ (isLoading' /\ ~isLoading)) =>
              /\ Trim(candidateName) # ""
              /\ startReqs'[Len(startReqs')].name = Trim(candidateName)
        /\ nBlankStart' # nBlankStart =>
              /\ Trim(candidateName) = ""
              /\ WithoutStartState' = WithoutStartState]_vars

\* C12 witness: Enter was pressed on a blank name; no request exists and the
\* page is still the untouched setup screen.
C12_Witness ==
  /\ nBlankStart = 1 /\ candidateName = " "
  /\ startReqs = <<>> /\ showSetup /\ ~isStarting /\ ~isLoading

\* C13: the timer is 0 as long as the setup screen is shown or no start
\* request has succeeded; a step leaves it alone or adds exactly 1, and adds
\* 1 only in the interview view with no start request loading.
C13_TimerOnlyLive ==
  /\ []((showSetup \/ NoStartSucceeded) => timer = 0)
  /\ [][\/ timer' = timer
        \/ /\ timer' = timer + 1
           /\ ~showSetup /\ ~isLoading /\ ~NoStartSucceeded]_vars

\* C13 witness: the session is live and the timer has ticked twice, after a
\* first start request that failed.
C13_Witness ==
  /\ timer = 2 /\ ~showSetup
  /\ Len(startReqs) = 2
  /\ startReqs[1].st = "failed" /\ startReqs[2].st = "ok"

HintLines == {i \in DOMAIN messages : messages[i].text = "hint"}

HintStep ==
  /\ nWsMsg' = nWsMsg + 1
  /\ Len(messages') = Len(messages) + 1
  /\ messages'[Len(messages')].text = "hint"

\* C14: the hint counter equals the number of hint messages received so far
\* (0 at the start); the step that handles a hint message adds exactly 1 and
\* every other step, whatever message or operation it is, leaves it alone.
C14_HintCounter ==
  /\ [](hintsUsed = Cardinality(HintLines))
  /\ [][IF HintStep THEN hintsUsed' = hintsUsed + 1
                    ELSE hintsUsed' = hintsUsed]_vars

\* C14 witness: an AI message and a hint have arrived; the counter is 1.
C14_Witness ==
  /\ nWsMsg = 2 /\ hintsUsed = 1
  /\ Len(messages) = 2
  /\ \E i \in DOMAIN messages : messages[i].text = "ai_message"

\* C15: in the mounted room, once no toggle is awaiting its track, an even number
\* of toggleMic calls has left the muted flag and the microphone track as
\* they were at the mount (unmuted, enabled), and likewise for the camera.
C15_ToggleInvolution ==
  connectionState # "Unmounted" =>
    /\ (micOps = <<>> /\ ~micOddToggles) =>
          (lkIsMuted = FALSE /\ micTrackEnabled = TRUE)
    /\ (camOps = <<>> /\ ~camOddToggles) =>
          (lkIsCameraOff = FALSE /\ camTrackEnabled = TRUE)

\* C16: in the mounted room the interface never shows unmuted while the
\* microphone track is disabled, nor camera on while the camera track is
\* disabled.
C16_ToggleAtomic ==
  connectionState # "Unmounted" =>
    /\ ~(lkIsMuted = FALSE /\ micTrackEnabled = FALSE)
    /\ ~(lkIsCameraOff = FALSE /\ camTrackEnabled = FALSE)

\* a payload that is not JSON and not blank, or JSON whose type is neither
\* transcript nor message
Unplaced(p) ==
  IF p.json = NotJson
  THEN TrimText(p.raw) # <<>>
  ELSE p.json.type \notin {"transcript", "message"}

\* C17: the step that receives a non-blank payload that is not JSON, or a
\* JSON payload of unknown or missing type, appends exactly one line to the
\* transcript.
C17_UnplacedPayloadBecomesLine ==
  [][(Len(dataLog') > Len(dataLog) /\ Unplaced(dataLog'[Len(dataLog')])) =>
        Len(messages') = Len(messages) + 1]_vars

\* C18: in the fallback interviewer, as long as the user has made no gesture
\* speakText has not been invoked: no speech turn exists and the speaking
\* flag is down.
C18_NoSpeechBeforeGesture ==
  ~hasUserInteractedRef => (turns = <<>> /\ ~isPlayingRef)

ChatEnds == Len(chats') < Len(chats)

AITexts == AIResponses \cup {Apology}

\* C19: the step in which a chat request ends appends exactly one AI line,
\* the reply or the apology, to the transcript and hands that same text to
\* speakText as one new speech turn; a chat request leaves the requests in
\* flight in no other way.
C19_ChatEndsInOneTurn ==
  [][ChatEnds =>
        /\ chats' = Tail(chats)
        /\ Len(messages') = Len(messages) + 1
        /\ messages'[Len(messages')].role = "ai"
        /\ messages'[Len(messages')].text \in AITexts
        /\ turns' = Append(turns, [text |-> messages'[Len(messages')].text,
                                   phase |-> "fetch",
                                   answer |-> NoAnswer])]_vars

\* C19 witness: a chat request has failed; the apology is the last line of
\* the transcript, after the candidate's line, and is being spoken.
C19_Witness ==
  /\ Len(messages) >= 2
  /\ messages[Len(messages)] = [role |-> "ai", text |-> Apology]
  /\ messages[Len(messages) - 1].role = "candidate"
  /\ chats = <<>>
  /\ \E i \in DOMAIN turns : turns[i].text = Apology

\* C20: whenever the TTS endpoint answers non-2xx, or with an audio payload
\* smaller than 100 bytes, the browser synthesis is invoked with the same
\* text and the payload is never played: a turn that got such an answer is
\* only ever with the browser synthesis, and the hand-over keeps its text
BadAnswer(a) == a # NoAnswer /\ (a.status \notin 200..299 \/ a.size < 100)
C20_BadAnswerFallsBack ==
  /\ [](\A i \in DOMAIN turns :
          BadAnswer(turns[i].answer)
            => turns[i].phase \in {"browser", "speaking"})
  /\ [][\A i \in DOMAIN turns :
          (/\ turns[i].phase = "fetch"
           /\ Len(turns') = Len(turns)
           /\ BadAnswer(turns'[i].answer))
            => (turns'[i].text = turns[i].text
                /\ turns'[i].phase = "browser")]_vars
C20_Witness ==
  \E i, j \in DOMAIN turns :
    /\ turns[i].answer = [status |-> 200, size |-> 99]
    /\ turns[i].phase = "speaking"
    /\ turns[j].answer = [status |-> 500, size |-> 100]
    /\ turns[j].phase = "browser"

\* C21: every speech turn eventually completes: whenever a turn is under
\* way, a state follows in which no turn is left and the speaking flag is
\* cleared
C21_EveryTurnCompletes ==
  (turns # <<>>) ~> (turns = <<>> /\ ~isSpeaking)

\* the debounce callback runs on an utterance: the buffer is emptied
Finalized == pendingTranscriptRef # <<>> /\ pendingTranscriptRef' = <<>>
CandidateEntry(words) == [role |-> "candidate", text |-> words]

\* C22: an utterance of fewer than 3 characters after trimming never gets
\* into the buffer, the transcript or a chat call
AllFull(words) == \A k \in DOMAIN words : Len(words[k]) >= 3
C22_ShortUtteranceDropped ==
  /\ AllFull(pendingTranscriptRef)
  /\ \A i \in DOMAIN messages :
       messages[i].role = "candidate" => AllFull(messages[i].text)
  /\ \A i \in DOMAIN chats : AllFull(chats[i])
C22_Witness ==
  /\ nShort > 0
  /\ \E i \in DOMAIN messages : messages[i].role = "candidate"
  /\ \E i \in DOMAIN messages : messages[i].text \in AITexts

C24_CooldownAfterResponse ==
  [][(Finalized /\ respondedRecently)
       => /\ messages' = Append(messages,
                                 CandidateEntry(pendingTranscriptRef))
          /\ chats' = chats]_vars

\* a step that starts recognition, and one the candidate takes with the
\* microphone button
RecStarts == rec # "starting" /\ rec' = "starting"
MicButton == isMutedRef' # isMutedRef
\* a step that sets a restart timer where none was pending
RestartScheduled == ~restartTimeoutRef.pending /\ restartTimeoutRef'.pending

\* C25: after a not-allowed error the error stays on display, no restart
\* is scheduled and recognition is not started again, unless the candidate
\* uses the microphone button
C25_DeniedIsTerminal ==
  [][(speechError = "denied" /\ ~MicButton)
       => /\ speechError' # NoError
          /\ ~RestartScheduled
          /\ ~RecStarts]_vars

\* C26: the retry counter returns to zero only when recognition reaches its
\* start event, and the delay of the retry scheduled after the k-th
\* service-not-allowed error in a row is 3000 * 2^(k-1) ms, at most 15000
C26_Backoff ==
  [][/\ (serviceNotAllowedRetryCount > 0 /\ serviceNotAllowedRetryCount' = 0)
         => (rec = "starting" /\ rec' = "running")
     /\ (rejections' = rejections + 1 /\ RestartScheduled)
         => restartTimeoutRef'.delay
              = Min(3000 * 2 ^ (rejections' - 1), 15000)]_vars

\* C27: when recognition ends after a no-speech error, the candidate not
\* muted and the interviewer not speaking, no speech error is set and a
\* restart is pending
C27_NoSpeechRestarts ==
  [][(/\ recError = "no-speech"
      /\ rec # "idle" /\ rec' = "idle"
      /\ ~isMutedRef /\ ~isPlayingRef /\ ~isSpeaking)
       => /\ speechError' = speechError
          /\ restartTimeoutRef'.pending]_vars

\* C28: a restart request made while a restart timer is pending leaves the
\* timer and its deadline as they are
C28_RestartIdempotent ==
  [][(restartTimeoutRef.pending /\ restartTimeoutRef'.pending)
       => restartTimeoutRef' = restartTimeoutRef]_vars

\* the turns whose TTS fetch has not been answered
Fetching == {i \in DOMAIN turns : turns[i].phase = "fetch"}

\* C29: once the component is unmounted recognition is not started again,
\* no restart is scheduled, no speakText begins and no fetched audio or
\* utterance begins to play
C29_TornDownStaysReleased ==
  [][~mounted
       => /\ ~RecStarts
          /\ ~RestartScheduled
          /\ Len(turns') <= Len(turns)
          /\ Len(turns') = Len(turns)
               => \A i \in Fetching : turns'[i].phase = "fetch"]_vars


\* the lifecycle state the page shows: the dashboard route once pushed, the
\* setup card (with its Connecting... button while isStarting), the loading
\* screen, and the interview view with or without a submission under way
Phase ==
  IF route # NoRoute THEN "ended"
  ELSE IF showSetup THEN (IF isStarting THEN "connecting" ELSE "setup")
  ELSE IF isLoading THEN "connecting"
  ELSE IF isSubmitting THEN "submitting"
  ELSE "live"

LifecycleSteps ==
  { <<"setup", "connecting">>, <<"connecting", "live">>,
    <<"connecting", "setup">>, <<"live", "submitting">>,
    <<"submitting", "live">>, <<"submitting", "ended">> }

\* C30: the lifecycle moves only along setup -> connecting -> live ->
\* submitting -> ended, backwards only from connecting to setup when a start
\* request fails and from submitting to live when the submit request fails;
\* live is entered from connecting only with a start request answered 2xx.
C30_LifecycleOrder ==
  [][ /\ Phase' # Phase => <<Phase, Phase'>> \in LifecycleSteps
      /\ (Phase = "connecting" /\ Phase' = "setup") =>
            \E i \in DOMAIN startReqs :
               startReqs[i].st = "inflight" /\ startReqs'[i].st = "failed"
      /\ (Phase = "submitting" /\ Phase' = "live") =>
            submitReq = "inflight" /\ submitReq' = "failed"
      /\ (Phase # "live" /\ Phase # "submitting" /\ Phase' = "live") =>
            \E i \in DOMAIN startReqs :
               startReqs[i].st = "inflight" /\ startReqs'[i].st = "ok" ]_vars


\* onresult was called in this step, after some time without a call
ResultArrived == sinceResult > 0 /\ sinceResult' = 0

\* C31: a candidate utterance is emitted only when a full silence window has
\* passed without a recognition result of any kind; a result arriving while
\* the silence timer is pending sets the timer anew; and what is emitted is
\* one transcript entry holding every fragment buffered so far.
C31_FullSilenceWindow ==
  [][ /\ Finalized =>
           /\ sinceResult = WindowTicks
           /\ messages' = Append(messages,
                                 CandidateEntry(pendingTranscriptRef))
      /\ (ResultArrived /\ transcriptTimeoutRef) => sinceArmed' = 0 ]_vars


\* C32: while the speaking flag the component shows (isSpeaking) is set, no
\* recognition result is taken into the buffer and no chat request is
\* sent, whether by a result or by the silence timer firing.
C32_DeafWhileSpeaking ==
  [][isSpeaking =>
       /\ Len(pendingTranscriptRef') <= Len(pendingTranscriptRef)
       /\ Len(chats') <= Len(chats)]_vars


\* the 2.5 s timer set by handleTTSComplete has not fired yet
CoolingDown == restartTimeoutRef = [pending |-> TRUE, delay |-> 2500]

\* a turn reaches handleTTSComplete
TurnCompletes == Len(turns') < Len(turns)

\* C33: while the 2.5 s cool-down after the last utterance is running,
\* recognition is started by nothing but that timer's own callback; and
\* the completion of an utterance with more utterances queued schedules no
\* restart.
C33_CooldownBeforeListening ==
  [][ /\ (CoolingDown /\ RecStarts) => ~restartTimeoutRef'.pending
      /\ (TurnCompletes /\ audioQueueRef # <<>>) => ~RestartScheduled ]_vars


\* the restart timer's callback runs (the timer is not cleared by speakText
\* or by the cleanup)
RestartTimerFired ==
  /\ restartTimeoutRef.pending /\ ~restartTimeoutRef'.pending
  /\ turns' = turns /\ mounted' = mounted

\* a step that calls recognition.start(): toggleMic when un-muting, the
\* restart timer's callback past its guards
StartInvoked ==
  \/ isMutedRef /\ ~isMutedRef'
  \/ RestartTimerFired /\ ~isMutedRef /\ ~isPlayingRef

\* C34: start() is invoked only on a recognizer that is neither starting
\* nor running.
C34_NoDoubleStart ==
  [][StartInvoked => rec \notin {"starting", "running"}]_vars


\* recognition is stopped for good: the recognizer is idle with the user
\* not muted and permission not denied, the interviewer is silent with
\* nothing queued, and no restart timer is pending
StoppedForGood ==
  /\ mounted /\ rec = "idle" /\ ~isMutedRef /\ speechError # "denied"
  /\ ~isPlayingRef /\ ~isSpeaking /\ turns = <<>>
  /\ audioQueueRef = <<>> /\ kickTimers = <<>>
  /\ ~restartTimeoutRef.pending

\* C35: recognition runs continuously: no state is reached in which it is
\* stopped, the user is not muted, the interviewer is silent and no restart
\* is pending.
C35_ListeningResumes == ~StoppedForGood


Live == {i \in DOMAIN gumReqs : gumReqs[i].st = "live"}

\* C36: while the camera is off, and after the component is unmounted, no
\* acquired stream has live tracks; while the camera is on the only live
\* stream is the one mediaStreamRef holds.
C36_TracksReleased ==
  /\ (isCameraOff \/ ~mounted) => Live = {}
  /\ Live \subseteq {mediaStreamRef}

\* C36 witness: the camera is off after being switched off, on and off
\* again; the first stream, which arrived only after the camera had been
\* switched off, and the second, which was being shown, are both stopped.
C36_Witness ==
  /\ isCameraOff /\ nCamToggle = 3 /\ Len(gumReqs) = 2
  /\ gumReqs[1].st = "stopped" /\ gumReqs[1].late
  /\ gumReqs[2].st = "stopped" /\ ~gumReqs[2].late


\* a WebSocket message makes the page leave for another route
CompletedStep == nWsMsg' = nWsMsg + 1 /\ route' # route

\* C37: the route pushed on an interview_status 'completed' message is the
\* dashboard of a session whose socket is open: the session id the
\* start-session call of that socket returned (request i returns id i).
C37_DashboardOfTheSession ==
  [][CompletedStep =>
       \E i \in DOMAIN sockets :
          sockets[i] = "OPEN" /\ route' = Dashboard(i)]_vars


FromCandidate(p) == p.json.role \in {"candidate", "user"}

\* C38: in LiveKitRoom.tsx the step that receives a transcript message
\* records it as a candidate entry exactly when its role field is candidate
\* or user, and records a message of any other role as an AI entry with
\* the message's text.
C38_FaithfulAttribution ==
  [][(/\ variant = "LiveKitRoom.tsx"
      /\ Len(dataLog') > Len(dataLog)
      /\ dataLog'[Len(dataLog')].json.type = "transcript") =>
        LET p == dataLog'[Len(dataLog')] IN
          /\ Len(messages') = Len(messages) + 1
          /\ messages'[Len(messages')].role = "candidate" <=> FromCandidate(p)
          /\ ~FromCandidate(p) =>
               messages'[Len(messages')] =
                 [role |-> "ai", text |-> p.json.text]]_vars


InFlight == {i \in DOMAIN startReqs : startReqs[i].st = "inflight"}

Created == {i \in DOMAIN sockets : sockets[i] # "none"}

\* C39: at most one start-session request is in flight, at most one
\* WebSocket has been created, and a socket that is connecting or open is
\* the one wsRef holds, which the unmount cleanup closes.
C39_OneStartOneSocket ==
  /\ Cardinality(InFlight) <= 1
  /\ Cardinality(Created) <= 1
  /\ \A i \in Created : sockets[i] \in {"CONNECTING", "OPEN"} => wsRef = i


GreetingEntries == {i \in DOMAIN messages : messages[i] = MessageEntry(Greeting)}

GreetingTurns == {i \in DOMAIN turns : turns[i].text = Greeting}

\* C40: the transcript holds the opening greeting at most once, and at most
\* one speech turn for the greeting is under way.
C40_GreetingOnce ==
  /\ Cardinality(GreetingEntries) <= 1
  /\ Cardinality(GreetingTurns) <= 1

====
